---------------------------- MODULE Spec2Model ----------------------------
(***************************************************************************)
(* Model of the extraction / cache pipeline of the LLM web scraper:        *)
(*   src/src/utils.py      the JSON files and the content cache            *)
(*   src/src/extractor.py  Extractor.extract_url / extract_urls            *)
(* Time is counted in seconds.  A Python dict is a TLA+ function from its  *)
(* keys to its values; a file is a sequence of JSON tokens.                *)
(***************************************************************************)
EXTENDS Integers, Sequences, FiniteSets, TLC

VARIABLES
    now,        \* datetime.now(), in seconds
    fs,         \* CACHE_DIR: cache file name -> file
    written,    \* history: per cache file, the record last written whole
    put,        \* per writer thread: the frame of its save_to_cache call
    get,        \* the reader thread: the frame of its get_from_cache call
    settings,   \* Extractor.settings, the parts the pipeline reads
    call,       \* the frame of the extract_urls call
    futures,    \* the futures of the call's ThreadPoolExecutor, in submit order
    sessions,   \* the live browser sessions (webdriver.Chrome not yet quit)
    lastHit,    \* history: per URL, what the last all-cached call returned
    api_keys,   \* openai.api_key and Extractor.google_api_key: set or empty
    frame,      \* the frame of one extract_url call followed step by step
    app,        \* the Streamlit page: the active profile and its session_state
    store,      \* DATA_DIR: the JSON stores of the managers, as ordered dicts
    proc        \* the application process: module values, session_state, frames

vars == <<now, fs, written, put, get, settings, call, futures, sessions, lastHit,
          api_keys, frame, app, store, proc>>
cacheVars == <<put, get>>
pipeVars == <<settings, call, futures, sessions, lastHit, api_keys, frame, app,
              store, proc>>

(***************************************************************************)
(* Bounds and input sets                                                   *)
(***************************************************************************)
URLs == {"A", "B"}
Writers == {"w1"}
\* the URLs the cache store's direct callers use
CacheURLs == {"A"}
\* the instants the clock visits: 0, 23h59m, 24h, 24h01m
Instants == {0, 86340, 86400, 86460}
\* the instants the clock visits under the pipeline: 0 and 24h01m
CallInstants == {0, 86460}
\* cache_timeout_hours values a reader passes
TTLs == {24, 48}
\* cache_timeout_hours values a settings profile holds
CallTTLs == {24}
\* the longest URL list handed to extract_urls, and the largest max_workers
MaxUrls == 2
MaxWorkers == 2
\* the browser sessions the machine can hold at once
MaxSessions == 2

SecondsPerHour == 3600
SecondsPerDay == 86400

(***************************************************************************)
(* Python values                                                           *)
(***************************************************************************)
None == [none |-> TRUE]
EmptyDict == <<>>

\* the outcome of evaluating a block: a returned value or a raised exception
Return(v) == [exc |-> "none", val |-> v]
Raise(e) == [exc |-> e, val |-> None]

\* try: <block> except Exception: return <handled>
TryExcept(outcome, handled) ==
    IF outcome.exc /= "none" THEN Return(handled) ELSE outcome

\* datetime.isoformat(): <<days, hours, minutes, seconds>>
isoformat(t) ==
    << t \div SecondsPerDay, (t % SecondsPerDay) \div SecondsPerHour,
       (t % SecondsPerHour) \div 60, t % 60 >>

\* datetime.fromisoformat(): raises ValueError on anything else
IsIsoString(s) == DOMAIN s = 1..4
fromisoformat(s) ==
    s[1] * SecondsPerDay + s[2] * SecondsPerHour + s[3] * 60 + s[4]

\* ExtractedContent, success variant (extractor.py return value)
Content(u, v, t) ==
    [url |-> u, title |-> v, html |-> v, text_content |-> v,
     links |-> <<>>, extracted_at |-> isoformat(t)]
\* ExtractedContent, error variant
ErrorResult(u, msg) == [url |-> u, error |-> msg]

(***************************************************************************)
(* JSON files                                                              *)
(***************************************************************************)
LBrace == <<"{">>
RBrace == <<"}">>

NoFile == [exists |-> FALSE, bytes |-> <<>>]
File(b) == [exists |-> TRUE, bytes |-> b]

\* json.dump of a dict given as the sequence of its items, in order
json_dump(items) == <<LBrace>> \o items \o <<RBrace>>

\* json.load: the dict, or a JSONDecodeError on a text that is no object
IsJson(b) ==
    /\ Len(b) >= 2
    /\ b[1] = LBrace
    /\ b[Len(b)] = RBrace
    /\ \A i \in 2..(Len(b) - 1) : Len(b[i]) = 2
json_load(b) ==
    IF IsJson(b)
    THEN Return([k \in {b[i][1] : i \in 2..(Len(b) - 1)} |->
                   LET last == CHOOSE i \in 2..(Len(b) - 1) :
                                 /\ b[i][1] = k
                                 /\ \A j \in (i + 1)..(Len(b) - 1) : b[j][1] /= k
                   IN b[last][2]])
    ELSE Raise("JSONDecodeError")

\* a cache key that ignores the URL it is made from
hash_url_constant(url) == <<"sha256", "A">>
hash_url(url) == <<"sha256", url>>
Keys == {hash_url(u) : u \in URLs}

\* load_json of an existing file; readOk = FALSE is an OSError of open/read
load_json(file, readOk) ==
    IF ~file.exists
    THEN Return(EmptyDict)
    ELSE TryExcept(IF readOk THEN json_load(file.bytes) ELSE Raise("OSError"),
                   EmptyDict)

\* the file load_json leaves behind: it creates a missing file holding {}
load_json_file(file) ==
    IF ~file.exists THEN File(json_dump(<<>>)) ELSE file

\* the dict save_to_cache builds
CacheDataNoContent(url, t, content) ==
    << <<"url", url>>, <<"timestamp", isoformat(t)>> >>
CacheData(url, t, content) ==
    << <<"url", url>>, <<"timestamp", isoformat(t)>>, <<"content", content>> >>

\* age_hours > cache_timeout_hours, with age_hours = seconds / 3600
ExpiredInclusive(age_seconds, cache_timeout_hours) ==
    age_seconds >= cache_timeout_hours * SecondsPerHour
Expired(age_seconds, cache_timeout_hours) ==
    age_seconds > cache_timeout_hours * SecondsPerHour

\* the try block of get_from_cache
get_from_cache_body(file, cache_timeout_hours, t, readOk) ==
    LET data == load_json(file, readOk).val
    IN  IF "timestamp" \notin DOMAIN data THEN Raise("KeyError")
        ELSE IF ~IsIsoString(data["timestamp"]) THEN Raise("ValueError")
        ELSE IF Expired(t - fromisoformat(data["timestamp"]), cache_timeout_hours)
             THEN Return(None)
        ELSE IF "content" \notin DOMAIN data THEN Raise("KeyError")
        ELSE Return(data["content"])

\* get_from_cache once cache_file.exists() has answered
get_from_cache_load_no_except(file, cache_timeout_hours, t, readOk) ==
    get_from_cache_body(file, cache_timeout_hours, t, readOk)
get_from_cache_load(file, cache_timeout_hours, t, readOk) ==
    TryExcept(get_from_cache_body(file, cache_timeout_hours, t, readOk), None)

\* the whole of get_from_cache on one snapshot of the file
get_from_cache(file, cache_timeout_hours, t, readOk) ==
    IF ~file.exists THEN Return(None)
    ELSE get_from_cache_load(file, cache_timeout_hours, t, readOk)

\* the except clause of save_json
save_json_no_except(outcome) == outcome
save_json_except(outcome) == TryExcept(outcome, FALSE)

\* open(file_path, "w"): the file is created or cut to length 0
open_w(file) == File(<<>>)

\* f.write at the writer's own offset: the text lands at that offset, the
\* file grows as needed, a gap the writer skipped reads as zero bytes
Zero == <<"0">>
write_at(bytes, off, text) ==
    LET len == IF Len(bytes) > off + Len(text) THEN Len(bytes) ELSE off + Len(text)
    IN  [i \in 1..len |->
            IF i > off /\ i <= off + Len(text) THEN text[i - off]
            ELSE IF i <= Len(bytes) THEN bytes[i]
            ELSE Zero]

(***************************************************************************)
(* The cache store as its callers drive it: one thread in save_to_cache,   *)
(* one thread in get_from_cache, the clock.  save_json writes the file in  *)
(* place: open(file, "w") truncates it, json.dump appends to it, and the   *)
(* buffered text reaches the file at any flush and at close.               *)
(***************************************************************************)
NoRecord == [T |-> -1, content |-> None]
Record(t, c) == [T |-> t, content |-> c]

\* what a caller hands to save_to_cache for a URL
PutContents(u) == {Content(u, 2, 0)}

\* the files a cache directory may hold for a URL before the calls start
StoredFiles(u) ==
    { NoFile,
      File(<<LBrace, <<"url", u>>>>),                                \* cut short
      File(json_dump(<<>>)),                                         \* {}
      File(json_dump(<< <<"url", u>>, <<"content", Content(u, 1, 0)>> >>)),
      File(json_dump(<< <<"url", u>>, <<"timestamp", isoformat(0)>> >>)),
      File(json_dump(<< <<"url", u>>, <<"timestamp", <<"yesterday">> >>,
                        <<"content", Content(u, 1, 0)>> >>)),
      File(json_dump(CacheData(u, 0, Content(u, 1, 0)))) }

\* the record a stored file holds, when it is a whole cache record
RecordOf(u, file) ==
    IF file = File(json_dump(CacheData(u, 0, Content(u, 1, 0))))
    THEN Record(0, Content(u, 1, 0))
    ELSE NoRecord

\* DEFAULT_SETTINGS["scraping"], the worker count within the bound; numeric =
\* latency_seconds and timeout_seconds are values float() and int() accept
DefaultSettings ==
    [cache_timeout_hours |-> 24, max_concurrent_tasks |-> MaxWorkers, numeric |-> TRUE]

\* scraping_settings.get("cache_timeout_hours", 24)
get_cache_timeout_hours(scraping_settings) ==
    IF "cache_timeout_hours" \in DOMAIN scraping_settings
    THEN scraping_settings.cache_timeout_hours
    ELSE 24

\* Extractor.__init__ with both API keys configured
AllKeys == [openai |-> TRUE, google |-> TRUE]

IdleCall ==
    [pc |-> "idle", fn |-> "", urls |-> <<>>, ttl |-> 0, max_workers |-> 0,
     i |-> 0, j |-> 0, results |-> <<>>, urls_to_extract |-> <<>>, hit |-> <<>>,
     valid |-> <<>>, fs0 |-> <<>>, launched |-> 0, provider |-> "",
     cached_urls |-> <<>>, uncached_urls |-> <<>>, expired |-> <<>>]

\* DATA_DIR before any manager has written to it
IdleStore == [settings |-> <<>>, url_lists |-> <<>>, prompts |-> <<>>]

\* the application process before any manager call
IdleProc == [pc |-> "idle"]

\* no extract_url call is being followed
IdleFrame == [pc |-> "idle"]

\* the page before any button was pressed
IdleApp == [profile |-> DefaultSettings, cached_urls |-> <<>>, checked_at |-> 0]

IdlePut ==
    [pc |-> "idle", url |-> "A", content |-> None, at |-> 0, off |-> 0,
     failed |-> FALSE, old |-> NoFile, ret |-> Return(None)]

\* the text json.dump produces for a writer's dict
PutText(w) == json_dump(CacheData(put[w].url, put[w].at, put[w].content))
IdleGet ==
    [pc |-> "idle", url |-> "A", ttl |-> 0, at |-> 0, readOk |-> TRUE,
     seen |-> NoFile, rec |-> NoRecord, allowed |-> {}, ret |-> Return(None)]

InitCache ==
    /\ now = 0
    /\ \E f \in [URLs -> UNION {StoredFiles(u) : u \in URLs}] :
         /\ \A u \in CacheURLs : f[u] \in StoredFiles(u)
         /\ \A u \in URLs \ CacheURLs : f[u] = NoFile
         /\ fs = [k \in Keys |-> f[k[2]]]
         /\ written = [k \in Keys |-> RecordOf(k[2], f[k[2]])]
    /\ put = [w \in Writers |-> IdlePut]
    /\ get = IdleGet
    /\ settings = DefaultSettings
    /\ call = IdleCall
    /\ futures = <<>>
    /\ sessions = 0
    /\ lastHit = [u \in URLs |-> None]
    /\ api_keys = AllKeys
    /\ frame = IdleFrame
    /\ app = IdleApp
    /\ store = IdleStore
    /\ proc = IdleProc

\* the clock moves on to a later instant
Tick ==
    /\ \E t \in Instants : t > now /\ now' = t
    /\ UNCHANGED <<fs, written, put, get, pipeVars>>

\* save_to_cache, lines 101-108: the key, and the dict with the current time
save_to_cache_call(w, u, c) ==
    /\ put[w].pc = "idle"
    /\ put' = [put EXCEPT ![w] = [IdlePut EXCEPT !.pc = "open", !.url = u,
                                                 !.content = c, !.at = now]]
    /\ UNCHANGED <<now, fs, written, get, pipeVars>>

\* save_json, lines 67-69: makedirs and open(file, "w"), which truncates;
\* either may raise OSError, caught at line 72
save_json_open(w) ==
    /\ put[w].pc = "open"
    /\ \/ /\ fs' = [fs EXCEPT ![hash_url(put[w].url)] = open_w(@)]
          /\ written' = [written EXCEPT ![hash_url(put[w].url)] = NoRecord]
          /\ put' = [put EXCEPT ![w].pc = "writing",
                                ![w].old = fs[hash_url(put[w].url)]]
       \/ /\ put' = [put EXCEPT ![w].pc = "done", ![w].failed = TRUE,
                                ![w].ret = save_json_except(Raise("OSError"))]
          /\ UNCHANGED <<fs, written, store, proc>>
    /\ UNCHANGED <<now, get, pipeVars>>

\* save_json, line 70: part of json.dump's text reaches the file
save_json_flush(w) ==
    /\ put[w].pc = "writing"
    /\ LET k == hash_url(put[w].url)
       IN  \E n \in (put[w].off + 1)..(Len(PutText(w)) - 1) :
             /\ fs' = [fs EXCEPT ![k] = File(write_at(@.bytes, put[w].off,
                                   SubSeq(PutText(w), put[w].off + 1, n)))]
             /\ put' = [put EXCEPT ![w].off = n]
    /\ UNCHANGED <<now, written, get, pipeVars>>

\* save_json, lines 70-71: json.dump ends, the file is closed, return True
save_json_close(w) ==
    /\ put[w].pc = "writing"
    /\ LET k == hash_url(put[w].url)
       IN  /\ fs' = [fs EXCEPT ![k] = File(write_at(@.bytes, put[w].off,
                         SubSeq(PutText(w), put[w].off + 1, Len(PutText(w)))))]
           /\ written' = [written EXCEPT ![k] = Record(put[w].at, put[w].content)]
    /\ put' = [put EXCEPT ![w].pc = "done", ![w].off = Len(PutText(w)),
                          ![w].ret = save_json_except(Return(TRUE))]
    /\ UNCHANGED <<now, get, pipeVars>>

\* save_json, lines 70-74: json.dump or a write raises; what was written stays
save_json_fail(w) ==
    /\ put[w].pc = "writing"
    /\ put' = [put EXCEPT ![w].pc = "done", ![w].failed = TRUE,
                          ![w].ret = save_json_except(Raise("OSError"))]
    /\ UNCHANGED <<now, fs, written, get, pipeVars>>

\* save_to_cache returns save_json's value to its caller
save_to_cache_return(w) ==
    /\ put[w].pc = "done"
    /\ put' = [put EXCEPT ![w] = IdlePut]
    /\ UNCHANGED <<now, fs, written, get, pipeVars>>

\* get_from_cache, lines 124-128: the key and cache_file.exists()
get_from_cache_exists(u, ttl) ==
    /\ get.pc = "idle"
    /\ get' = IF fs[hash_url(u)].exists
              THEN [IdleGet EXCEPT !.pc = "load", !.url = u, !.ttl = ttl]
              ELSE [IdleGet EXCEPT !.pc = "done", !.url = u, !.ttl = ttl,
                                   !.at = now,
                                   !.allowed = {NoFile},
                                   !.ret = get_from_cache(NoFile, ttl, now, TRUE)]
    /\ UNCHANGED <<now, fs, written, put, pipeVars>>

\* the files a reader of key k may see if writes are atomic: the file as it
\* is, or, while a save_json is writing it, the file before or after
WholeFiles(k) ==
    IF \E w \in DOMAIN put : put[w].pc = "writing" /\ hash_url(put[w].url) = k
    THEN UNION {{put[w].old, File(PutText(w))} :
                w \in {x \in DOMAIN put : put[x].pc = "writing"
                                          /\ hash_url(put[x].url) = k}}
    ELSE {fs[k]}

\* get_from_cache, lines 130-145: load_json reads the file as it is now
get_from_cache_read(readOk) ==
    /\ get.pc = "load"
    /\ LET k == hash_url(get.url)
       IN  /\ get' = [get EXCEPT !.pc = "done", !.at = now, !.readOk = readOk,
                                 !.seen = fs[k], !.rec = written[k],
                                 !.allowed = WholeFiles(k),
                                 !.ret = get_from_cache_load(fs[k], get.ttl, now, readOk)]
           /\ fs' = [fs EXCEPT ![k] = load_json_file(fs[k])]
    /\ UNCHANGED <<now, written, put, pipeVars>>

\* get_from_cache returns to its caller
get_from_cache_return ==
    /\ get.pc = "done"
    /\ get' = IdleGet
    /\ UNCHANGED <<now, fs, written, put, pipeVars>>

NextCache ==
    \/ Tick
    \/ \E w \in Writers, u \in CacheURLs : \E c \in PutContents(u) : save_to_cache_call(w, u, c)
    \/ \E w \in Writers : save_json_open(w)
    \/ \E w \in Writers : save_json_flush(w)
    \/ \E w \in Writers : save_json_close(w)
    \/ \E w \in Writers : save_json_fail(w)
    \/ \E w \in Writers : save_to_cache_return(w)
    \/ \E u \in CacheURLs, ttl \in TTLs : get_from_cache_exists(u, ttl)
    \/ \E readOk \in BOOLEAN : get_from_cache_read(readOk)
    \/ get_from_cache_return

SpecCache == InitCache /\ [][NextCache]_vars

(***************************************************************************)
(* Claims about the cache store, checked under SpecCache                   *)
(***************************************************************************)
\* the dict a file holds, {} when it holds none
StoredDict(file) ==
    IF file.exists /\ IsJson(file.bytes) THEN json_load(file.bytes).val ELSE EmptyDict
\* a corrupt record: unparseable, or without its timestamp or its content
Corrupt(file) ==
    /\ file.exists
    /\ \/ ~IsJson(file.bytes)
       \/ "timestamp" \notin DOMAIN StoredDict(file)
       \/ "content" \notin DOMAIN StoredDict(file)

\* C1: get_from_cache never raises; it returns the stored content or None,
\* and None when there is no record, when the record is corrupt, or when
\* the read fails.
C1_GetNeverRaises ==
    get.pc = "done" =>
        /\ get.ret.exc = "none"
        /\ (~get.seen.exists \/ Corrupt(get.seen) \/ ~get.readOk) => get.ret.val = None
        /\ get.ret.val /= None =>
              /\ "content" \in DOMAIN StoredDict(get.seen)
              /\ get.ret.val = StoredDict(get.seen)["content"]
C1_Witness ==
    /\ get.pc = "done"
    /\ Corrupt(get.seen)
    /\ "timestamp" \in DOMAIN StoredDict(get.seen)
    /\ get.ret = Return(None)

\* C2: a whole record written at time T is returned by a read at time t
\* with ttl_hours iff t - T <= ttl_hours (in seconds: * 3600), otherwise
\* None: the bound is inclusive and only the reader's TTL decides.
C2_TtlAtReadTime ==
    (get.pc = "done" /\ get.rec /= NoRecord /\ get.readOk) =>
        /\ (get.ret.val = get.rec.content)
              <=> (get.at - get.rec.T <= get.ttl * SecondsPerHour)
        /\ get.ret.val \in {get.rec.content, None}
        /\ get.ret.exc = "none"
C2_Witness ==
    /\ get.pc = "done" /\ get.rec /= NoRecord /\ get.readOk
    /\ get.ttl = 24
    /\ get.at - get.rec.T = 24 * SecondsPerHour
    /\ get.ret.val = get.rec.content

\* C3: save_to_cache never raises; it returns True with the file holding
\* exactly {url, timestamp = time of the call, content}, whatever it held,
\* and False when the write failed.
C3_PutNeverRaises ==
    \A w \in Writers : put[w].pc = "done" =>
        /\ put[w].ret.exc = "none"
        /\ put[w].ret.val = ~put[w].failed
        /\ put[w].ret.val = TRUE =>
              /\ fs[hash_url(put[w].url)] = File(PutText(w))
              /\ StoredDict(fs[hash_url(put[w].url)]) =
                    [url |-> put[w].url, timestamp |-> isoformat(put[w].at),
                     content |-> put[w].content]
              /\ fromisoformat(StoredDict(fs[hash_url(put[w].url)])["timestamp"]) = put[w].at
C3_Witness ==
    \E w \in Writers :
        /\ put[w].pc = "done"
        /\ put[w].ret = Return(TRUE)
        /\ put[w].at > 0
        /\ put[w].old = File(json_dump(CacheData(put[w].url, 0, Content(put[w].url, 1, 0))))

\* C4: a get that overlaps a put of the same key sees the whole previous
\* file (or none) or the whole new file, never a partly written one: it
\* returns what one of those two files yields.
C4_AtomicWrite ==
    (get.pc = "done" /\ get.readOk) =>
        get.ret \in {get_from_cache(f, get.ttl, get.at, TRUE) : f \in get.allowed}

(***************************************************************************)
(* The pipeline: Extractor.extract_urls, its ThreadPoolExecutor and the    *)
(* extract_url workers.                                                    *)
(***************************************************************************)
\* Python truth of a dict or None: "if cached_content:", "if result"
Truthy(v) == v /= None /\ DOMAIN v /= {}

\* d[k] = v on a dict
DictSetDefault(d, k, v) == [x \in DOMAIN d \cup {k} |-> IF x \in DOMAIN d THEN d[x] ELSE v]
DictSet(d, k, v) == [x \in DOMAIN d \cup {k} |-> IF x = k THEN v ELSE d[x]]

Range(seq) == {seq[n] : n \in DOMAIN seq}

\* the URL lists a caller hands to extract_urls, repeated URLs included
UrlLists == UNION {[1..n -> URLs] : n \in 1..MaxUrls}

\* the settings a profile may hold: save_settings stores any dict unchecked
SettingsValues ==
    [cache_timeout_hours : CallTTLs, max_concurrent_tasks : {MaxWorkers},
     numeric : BOOLEAN]

\* the files the cache directory may hold for a URL when a call starts
PipelineFiles(u) ==
    { NoFile,
      File(<<LBrace, <<"url", u>>>>),
      File(json_dump(CacheData(u, 0, Content(u, 1, 0)))) }

\* what the engine can return for a URL at time t
PageContent(u, t) == Content(u, 2, t)
SessionError(u) == ErrorResult(u, "session not created")
ScriptError(u) == ErrorResult(u, "unknown command: Page.addScriptToEvaluateOnNewDocument")
PageError(u) == ErrorResult(u, "Page load timed out")

\* a future of the pool and the frame of its task: session is the task's
\* webdriver ("none", "live", "quit"), failed the step of extract_url that
\* failed, content the local of process_content, adapter the provider
\* function entered, client whether its network client was called, exc the
\* exception the future holds
NewFuture(u) ==
    [url |-> u, state |-> "pending", stage |-> "", result |-> None,
     session |-> "none", failed |-> "", content |-> None, adapter |-> "",
     client |-> FALSE, exc |-> ""]

Init ==
    /\ now = 0
    /\ \E f \in [URLs -> UNION {PipelineFiles(u) : u \in URLs}] :
         /\ \A u \in URLs : f[u] \in PipelineFiles(u)
         /\ fs = [k \in Keys |-> f[k[2]]]
         /\ written = [k \in Keys |-> RecordOf(k[2], f[k[2]])]
    /\ put = [w \in Writers |-> IdlePut]
    /\ get = IdleGet
    /\ settings \in SettingsValues
    /\ call = IdleCall
    /\ futures = <<>>
    /\ sessions = 0
    /\ lastHit = [u \in URLs |-> None]
    /\ api_keys = AllKeys
    /\ frame = IdleFrame
    /\ app = IdleApp
    /\ store = IdleStore
    /\ proc = IdleProc

\* the clock, under the pipeline
TickPipe ==
    /\ \E t \in CallInstants : t > now /\ now' = t
    /\ UNCHANGED <<fs, written, cacheVars, pipeVars>>

\* app.py: extractor.settings = temp_settings, between calls
assign_settings(v) ==
    /\ call.pc = "idle"
    /\ settings /= v
    /\ settings' = v
    /\ UNCHANGED <<now, fs, written, cacheVars, api_keys, frame, app, call, futures, sessions, lastHit, store, proc>>

\* the max_workers a caller passes; 0 stands for max_workers=None
WorkerCounts == {0, 1}

\* extract_urls, lines 283-291
extract_urls_call(urls, mw) ==
    /\ call.pc = "idle"
    /\ call' = [IdleCall EXCEPT
                  !.pc = "scan", !.fn = "extract_urls", !.urls = urls, !.i = 1,
                  !.ttl = get_cache_timeout_hours(settings),
                  !.max_workers = IF mw = 0 THEN settings.max_concurrent_tasks ELSE mw,
                  !.fs0 = fs]
    /\ UNCHANGED <<now, fs, written, cacheVars, api_keys, frame, app, settings, futures, sessions, lastHit, store, proc>>

\* whether the URL has a whole record that is older than the TTL
ExpiredRecord(k, ttl) ==
    /\ written[k] /= NoRecord
    /\ Expired(now - written[k].T, ttl)

\* whether the URL has a whole, unexpired record that can be read
ValidRecord(k, ttl, readOk) ==
    /\ written[k] /= NoRecord
    /\ now - written[k].T <= ttl * SecondsPerHour
    /\ readOk

\* what the result loop of extract_urls does to a URL's cache file
cache_after_result_saved(file, url, result, t) ==
    File(json_dump(CacheData(url, t, result)))
cache_after_result(file, url, result, t) == file

\* lines 296-299: a hit goes to results, a miss to urls_to_extract
results_after_lookup(results, url, cached_content) ==
    IF Truthy(cached_content) THEN DictSet(results, url, cached_content) ELSE results
urls_to_extract_always(urls_to_extract, url, cached_content) ==
    Append(urls_to_extract, url)
urls_to_extract_after_lookup(urls_to_extract, url, cached_content) ==
    IF Truthy(cached_content) THEN urls_to_extract ELSE Append(urls_to_extract, url)

\* lines 314-315: a worker's result goes to results under its own url
results_without_errors(results, result) ==
    IF Truthy(result) /\ "url" \in DOMAIN result /\ "error" \notin DOMAIN result
    THEN DictSet(results, result["url"], result)
    ELSE results
results_after_result(results, result) ==
    IF Truthy(result) /\ "url" \in DOMAIN result
    THEN DictSet(results, result["url"], result)
    ELSE results

\* extract_urls, lines 294-299: one turn of the cache loop
extract_urls_lookup(readOk) ==
    /\ call.pc = "scan"
    /\ call.i <= Len(call.urls)
    /\ LET url == call.urls[call.i]
           k == hash_url(url)
           cached_content == get_from_cache(fs[k], call.ttl, now, readOk).val
       IN  call' = [call EXCEPT
                      !.i = @ + 1,
                      !.results = results_after_lookup(@, url, cached_content),
                      !.urls_to_extract =
                          urls_to_extract_after_lookup(@, url, cached_content),
                      !.hit = Append(@, Truthy(cached_content)),
                      !.valid = Append(@, ValidRecord(k, call.ttl, readOk)),
                      !.expired = Append(@, ExpiredRecord(k, call.ttl))]
    /\ UNCHANGED <<now, fs, written, cacheVars, api_keys, frame, app, settings, futures, sessions, lastHit, store, proc>>

\* extract_urls, lines 301-310: return the hits, or submit every miss
extract_urls_scanned ==
    /\ call.pc = "scan"
    /\ call.i > Len(call.urls)
    /\ \/ /\ call.urls_to_extract = <<>>
          /\ call' = [call EXCEPT !.pc = "done"]
          /\ UNCHANGED futures
       \/ /\ call.urls_to_extract /= <<>>
          /\ call' = [call EXCEPT !.pc = "collect", !.j = 1]
          /\ futures' = [n \in DOMAIN call.urls_to_extract |->
                           NewFuture(call.urls_to_extract[n])]
    /\ UNCHANGED <<now, fs, written, cacheVars, api_keys, frame, app, settings, sessions, lastHit, store, proc>>

Running == {n \in DOMAIN futures : futures[n].state = "running"}

\* the first step of the function the pool runs: extract_url under
\* extract_urls, process_content's lookup under process_urls
FirstStage == IF call.fn = "process_urls" THEN "lookup" ELSE "settings"

\* a pool thread takes the oldest pending work item
worker_start(n) ==
    /\ futures[n].state = "pending"
    /\ \A m \in 1..(n - 1) : futures[m].state /= "pending"
    /\ Cardinality(Running) < call.max_workers
    /\ futures' = [futures EXCEPT ![n].state = "running", ![n].stage = FirstStage]
    /\ UNCHANGED <<now, fs, written, cacheVars, api_keys, frame, app, settings, call, sessions, lastHit, store, proc>>

\* extract_url returns value: to the pool under extract_urls (executor.map
\* runs it directly), to process_content's local under process_urls
extract_url_return(f, value, step) ==
    IF call.fn = "process_urls"
    THEN [f EXCEPT !.stage = "content", !.content = value, !.failed = step]
    ELSE [f EXCEPT !.state = "done", !.stage = "", !.result = value, !.failed = step]

\* an exception leaves the task: the future holds it
task_raise(f, e, step) ==
    [f EXCEPT !.state = "raised", !.stage = "", !.exc = e, !.failed = step]

\* extract_url, lines 117-121: float() and int() of the settings, outside
\* the try block
extract_url_settings(n) ==
    /\ futures[n].state = "running"
    /\ futures[n].stage = "settings"
    /\ futures' = IF settings.numeric
                  THEN [futures EXCEPT ![n].stage = "create"]
                  ELSE [futures EXCEPT ![n] = task_raise(@, "ValueError", "settings")]
    /\ UNCHANGED <<now, fs, written, cacheVars, api_keys, frame, app, settings, call, sessions, lastHit, store, proc>>

\* extract_url, lines 125-133 and 265-270: webdriver.Chrome(...)
extract_url_create(n) ==
    /\ futures[n].state = "running"
    /\ futures[n].stage = "create"
    /\ \/ /\ sessions < MaxSessions
          /\ futures' = [futures EXCEPT ![n].stage = "script", ![n].session = "live"]
          /\ sessions' = sessions + 1
          /\ call' = [call EXCEPT !.launched = @ + 1]
       \/ /\ futures' = [futures EXCEPT
                           ![n] = extract_url_return(@, SessionError(@.url), "create")]
          /\ UNCHANGED <<sessions, call, store, proc>>
    /\ UNCHANGED <<now, fs, written, cacheVars, api_keys, frame, app, settings, lastHit, store, proc>>

\* what the failure of execute_cdp_cmd does to the driver: line 136 is
\* before the try of line 160, whose finally holds driver.quit()
session_after_script_error(session) == session

\* extract_url, lines 136-158 and 265-270: execute_cdp_cmd installs the
\* anti-detection script, or raises into the outer except
extract_url_script(n) ==
    /\ futures[n].state = "running"
    /\ futures[n].stage = "script"
    /\ \/ /\ futures' = [futures EXCEPT ![n].stage = "page"]
          /\ UNCHANGED sessions
       \/ LET after == session_after_script_error(futures[n].session)
          IN  /\ futures' = [futures EXCEPT
                    ![n] = [extract_url_return(@, ScriptError(@.url), "script")
                              EXCEPT !.session = after]]
              /\ sessions' = IF after = "quit" THEN sessions - 1 ELSE sessions
    /\ UNCHANGED <<now, fs, written, cacheVars, api_keys, frame, app, settings, call, lastHit, store, proc>>

\* extract_url, lines 160-270: the page is loaded and read, or a step
\* raises into the outer except; the finally of line 262 quits the driver
extract_url_page(n) ==
    /\ futures[n].state = "running"
    /\ futures[n].stage = "page"
    /\ \/ futures' = [futures EXCEPT
              ![n] = [extract_url_return(@, PageContent(@.url, now), "")
                        EXCEPT !.session = "quit"]]
       \/ futures' = [futures EXCEPT
              ![n] = [extract_url_return(@, PageError(@.url), "page")
                        EXCEPT !.session = "quit"]]
    /\ sessions' = sessions - 1
    /\ UNCHANGED <<now, fs, written, cacheVars, api_keys, frame, app, settings, call, lastHit, store, proc>>

\* extract_urls, lines 313-315: the next result of executor.map, in submit
\* order; a worker's exception is raised again here, and the iterator
\* cancels the futures still pending
extract_urls_collect ==
    /\ call.pc = "collect"
    /\ call.j <= Len(futures)
    /\ LET f == futures[call.j]
           k == hash_url(f.url)
       IN  \/ /\ f.state = "done"
              /\ call' = [call EXCEPT
                            !.j = @ + 1,
                            !.results = results_after_result(@, f.result)]
              /\ fs' = [fs EXCEPT ![k] = cache_after_result(@, f.url, f.result, now)]
              /\ UNCHANGED futures
           \/ /\ f.state = "raised"
              /\ call' = [call EXCEPT !.pc = "unwind"]
              /\ futures' = [n \in DOMAIN futures |->
                               IF futures[n].state = "pending"
                               THEN [futures[n] EXCEPT !.state = "cancelled"]
                               ELSE futures[n]]
              /\ UNCHANGED fs
    /\ UNCHANGED <<now, written, cacheVars, api_keys, frame, app, settings, sessions, lastHit, store, proc>>

\* extract_urls, lines 308 and 317: the with block ends, return results
extract_urls_exit ==
    /\ call.pc = "collect"
    /\ call.j > Len(futures)
    /\ call' = [call EXCEPT !.pc = "done"]
    /\ UNCHANGED <<now, fs, written, cacheVars, api_keys, frame, app, settings, futures, sessions, lastHit, store, proc>>

\* line 308: the with block waits for the running workers, then the
\* exception leaves extract_urls
extract_urls_unwind ==
    /\ call.pc = "unwind"
    /\ Running = {}
    /\ call' = [call EXCEPT !.pc = "raised"]
    /\ UNCHANGED <<now, fs, written, cacheVars, api_keys, frame, app, settings, futures, sessions, lastHit, store, proc>>

AllValid == \A n \in DOMAIN call.valid : call.valid[n]

\* the caller has the mapping or the exception
extract_urls_return ==
    /\ call.pc \in {"done", "raised"}
    /\ lastHit' = IF call.pc = "done" /\ AllValid /\ call.urls_to_extract = <<>>
               THEN [u \in URLs |-> IF u \in DOMAIN call.results
                                    THEN call.results[u] ELSE lastHit[u]]
               ELSE lastHit
    /\ call' = IdleCall
    /\ futures' = <<>>
    /\ UNCHANGED <<now, fs, written, cacheVars, api_keys, frame, app, settings, sessions, store, proc>>

Next ==
    \/ TickPipe
    \/ \E v \in SettingsValues : assign_settings(v)
    \/ \E urls \in UrlLists, mw \in WorkerCounts : extract_urls_call(urls, mw)
    \/ \E readOk \in BOOLEAN : extract_urls_lookup(readOk)
    \/ extract_urls_scanned
    \/ \E n \in DOMAIN futures : worker_start(n)
    \/ \E n \in DOMAIN futures : extract_url_settings(n)
    \/ \E n \in DOMAIN futures : extract_url_create(n)
    \/ \E n \in DOMAIN futures : extract_url_script(n)
    \/ \E n \in DOMAIN futures : extract_url_page(n)
    \/ extract_urls_collect
    \/ extract_urls_exit
    \/ extract_urls_unwind
    \/ extract_urls_return

Spec == Init /\ [][Next]_vars

(***************************************************************************)
(* Claims about extract_urls, checked under Spec                           *)
(***************************************************************************)
Ended == call.pc \in {"done", "raised"}
IsError(result) == "error" \in DOMAIN result
Invoked(n) == futures[n].state \in {"running", "done", "raised"}
Distinct(seq) == \A m, n \in DOMAIN seq : m /= n => seq[m] /= seq[n]
\* the content of the URL's cache record when the call started
CachedContent(u) == StoredDict(call.fs0[hash_url(u)])["content"]
\* the last future submitted for a URL
LastFuture(u) ==
    CHOOSE n \in DOMAIN futures :
        /\ futures[n].url = u
        /\ \A m \in DOMAIN futures : futures[m].url = u => m <= n

\* C5: when extract_urls returns, every URL that missed the cache and was
\* extracted without error has a cache record holding that content.
C5_FreshResultsCached ==
    call.pc = "done" =>
        \A n \in DOMAIN futures :
            (futures[n].state = "done" /\ ~IsError(futures[n].result)) =>
                /\ "content" \in DOMAIN StoredDict(fs[hash_url(futures[n].url)])
                /\ StoredDict(fs[hash_url(futures[n].url)])["content"]
                      = call.results[futures[n].url]

\* C6: no cache file ever holds a record whose content is an error result.
C6_NoErrorCached ==
    \A k \in Keys :
        "content" \in DOMAIN StoredDict(fs[k]) => ~IsError(StoredDict(fs[k])["content"])
C6_Witness ==
    /\ call.pc = "done"
    /\ \E n \in DOMAIN futures :
         /\ futures[n].state = "done"
         /\ IsError(futures[n].result)
         /\ call.results[futures[n].url] = futures[n].result
         /\ ~fs[hash_url(futures[n].url)].exists

\* C7: a call all of whose URLs have a whole, unexpired, readable record
\* returns the cached content of each, the same as the call before it,
\* launches no browser session and leaves the cache files as they were.
C7_WarmCacheNoBrowser ==
    (call.pc = "done" /\ AllValid) =>
        /\ call.urls_to_extract = <<>>
        /\ futures = <<>>
        /\ call.launched = 0
        /\ DOMAIN call.results = Range(call.urls)
        /\ \A u \in Range(call.urls) :
              /\ call.results[u] = written[hash_url(u)].content
              /\ lastHit[u] /= None => call.results[u] = lastHit[u]
        /\ fs = call.fs0
C7_Witness ==
    /\ call.pc = "done" /\ AllValid
    /\ Len(call.urls) = 2 /\ Distinct(call.urls)
    /\ \A u \in Range(call.urls) : lastHit[u] /= None /\ call.results[u] = lastHit[u]

\* C8: over distinct URLs, when extract_urls ends, extract_url has been
\* invoked exactly once for each URL whose lookup missed and never for a
\* URL whose lookup hit.
C8_ExtractOncePerMiss ==
    (Ended /\ Distinct(call.urls)) =>
        \A i \in DOMAIN call.urls :
            LET mine == {n \in DOMAIN futures :
                           futures[n].url = call.urls[i] /\ Invoked(n)}
            IN  Cardinality(mine) = IF call.hit[i] THEN 0 ELSE 1

\* C9 as stated: the returned mapping covers exactly the input URLs, each
\* hit maps to its cached content and each miss to the engine's result.
C9_UnionOfHitsAndFresh ==
    call.pc = "done" =>
        /\ DOMAIN call.results = Range(call.urls)
        /\ \A i \in DOMAIN call.urls :
              IF call.hit[i]
              THEN call.results[call.urls[i]] = CachedContent(call.urls[i])
              ELSE \E n \in DOMAIN futures :
                     /\ futures[n].url = call.urls[i]
                     /\ call.results[call.urls[i]] = futures[n].result

\* C9 amended: the returned mapping covers exactly the input URLs; a URL
\* none of whose lookups missed maps to its cached content, and a URL with
\* a missed lookup maps to the engine's result of its last extraction,
\* error results included.
C9_UnionLastWins ==
    call.pc = "done" =>
        /\ DOMAIN call.results = Range(call.urls)
        /\ \A u \in Range(call.urls) :
              IF u \in Range(call.urls_to_extract)
              THEN call.results[u] = futures[LastFuture(u)].result
              ELSE call.results[u] = CachedContent(u)
C9_Witness ==
    /\ call.pc = "done"
    /\ Len(call.urls) = 2
    /\ call.hit[1] /\ ~call.hit[2]
    /\ call.results[call.urls[1]] = CachedContent(call.urls[1])
    /\ IsError(call.results[call.urls[2]])

\* C10: when the worker of exactly one URL raises, extract_urls still
\* returns: that URL has an error result and every other URL its own
\* result.
C10_FaultIsolation ==
    (/\ Ended
     /\ Len(call.urls) > 1
     /\ Cardinality({n \in DOMAIN futures : futures[n].state = "raised"}) = 1) =>
        /\ call.pc = "done"
        /\ DOMAIN call.results = Range(call.urls)
        /\ \A n \in DOMAIN futures :
              IF futures[n].state = "raised"
              THEN IsError(call.results[futures[n].url])
              ELSE call.results[futures[n].url] = futures[LastFuture(futures[n].url)].result

(***************************************************************************)
(* Claims about extract_url, checked under Spec                            *)
(***************************************************************************)
\* the steps of extract_url, and whether the task's call of it has returned
ExtractSteps == {"settings", "create", "script", "page"}
ExtractReturned(n) ==
    /\ futures[n].state /= "pending"
    /\ futures[n].state /= "cancelled"
    /\ futures[n].stage \notin ExtractSteps
\* what the task's call of extract_url returned
ExtractValue(n) ==
    IF call.fn = "process_urls" THEN futures[n].content ELSE futures[n].result

\* C12: a session that extract_url created is quit when extract_url has
\* returned or raised, whatever step failed after the creation; when no
\* batch call is running, no session is live.
C12_SessionTornDown ==
    /\ \A n \in DOMAIN futures :
          (ExtractReturned(n) /\ futures[n].session /= "none") =>
              futures[n].session = "quit"
    /\ call.pc = "idle" => sessions = 0

\* C13: a failure of extract_url after the session exists (installing the
\* script, navigation, waiting, reading the page) ends in {url, error}
\* for the same url, and extract_url raises only when the session could
\* not be created.
C13_FailuresAreValues ==
    \A n \in DOMAIN futures :
        /\ (ExtractReturned(n) /\ futures[n].failed \in {"script", "page"}) =>
              /\ futures[n].state /= "raised"
              /\ IsError(ExtractValue(n))
              /\ ExtractValue(n)["url"] = futures[n].url
        /\ (futures[n].state = "raised" /\ futures[n].failed \in ExtractSteps) =>
              futures[n].failed = "create"

(***************************************************************************)
(* The processing pipeline: Extractor.process_urls, its pool running       *)
(* process_content, the two provider functions, and                        *)
(* Extractor.check_url_cache_status.                                       *)
(***************************************************************************)
\* the API keys Extractor.__init__ may find: both set or both missing
ApiKeys == {[openai |-> b, google |-> b] : b \in BOOLEAN}

\* the files the cache directory may hold for a URL when a call starts
ProcessFiles(u) == {NoFile, File(json_dump(CacheData(u, 0, Content(u, 1, 0))))}

\* what the provider's client does: the text, or an exception of the
\* client (authentication, quota, network)
ClientOutcomes == {Return("text"), Raise("APIError")}

\* the provider strings a caller passes, and str.lower() on them
Providers == {"openai", "Google", "claude"}
lower(provider) == IF provider = "Google" THEN "google" ELSE provider

\* ProcessingResult, success and error variant
ProcessingResult(content, model, t) ==
    [url |-> content["url"], title |-> content["title"],
     processed_at |-> isoformat(t), model |-> model, response |-> "text"]
ProcessingError(u, msg, t) ==
    [url |-> u, error |-> msg, processed_at |-> isoformat(t)]

\* the model each provider function reports
ModelOf(adapter) == IF adapter = "openai" THEN "gpt-4" ELSE "gemini-2.0-flash"

InitProcess ==
    /\ now = 0
    /\ \E f \in [URLs -> UNION {ProcessFiles(u) : u \in URLs}] :
         /\ \A u \in URLs : f[u] \in ProcessFiles(u)
         /\ fs = [k \in Keys |-> f[k[2]]]
         /\ written = [k \in Keys |-> RecordOf(k[2], f[k[2]])]
    /\ put = [w \in Writers |-> IdlePut]
    /\ get = IdleGet
    /\ settings \in SettingsValues
    /\ call = IdleCall
    /\ futures = <<>>
    /\ sessions = 0
    /\ lastHit = [u \in URLs |-> None]
    /\ api_keys \in ApiKeys
    /\ frame = IdleFrame
    /\ app = IdleApp
    /\ store = IdleStore
    /\ proc = IdleProc

\* the clock, under the processing pipeline: the instants are a day apart,
\* and a process_urls batch is over within one of them
TickProcess ==
    /\ call.fn /= "process_urls"
    /\ \E t \in CallInstants : t > now /\ now' = t
    /\ UNCHANGED <<fs, written, cacheVars, pipeVars>>

\* the max_workers a caller passes to process_urls: a pool of one thread
\* (the pool's concurrency is what Spec explores)
ProcessWorkerCounts == {1}

\* process_urls, lines 494-508: the pool, one submitted task per list entry
process_urls_call(urls, provider, mw) ==
    /\ call.pc = "idle"
    /\ call' = [IdleCall EXCEPT
                  !.pc = "collect", !.fn = "process_urls", !.urls = urls, !.j = 1,
                  !.provider = provider,
                  !.max_workers = IF mw = 0 THEN settings.max_concurrent_tasks ELSE mw,
                  !.fs0 = fs]
    /\ futures' = [n \in DOMAIN urls |-> NewFuture(urls[n])]
    /\ UNCHANGED <<now, fs, written, cacheVars, api_keys, frame, app, settings, sessions, lastHit, store, proc>>

\* what get_from_cache leaves of the file it looked up: load_json is only
\* reached for a file that exists
cache_after_lookup_loaded(file) == load_json_file(file)
cache_after_lookup_purged(file) == NoFile
cache_after_lookup(file) == IF ~file.exists THEN file ELSE load_json_file(file)

\* process_content, lines 452-458: the lookup; a miss goes on to extract_url
process_content_lookup(n, readOk) ==
    /\ futures[n].state = "running"
    /\ futures[n].stage = "lookup"
    /\ LET k == hash_url(futures[n].url)
           content == get_from_cache(fs[k], get_cache_timeout_hours(settings), now, readOk).val
       IN  /\ futures' = IF Truthy(content)
                         THEN [futures EXCEPT ![n].stage = "content", ![n].content = content]
                         ELSE [futures EXCEPT ![n].stage = "settings"]
           /\ fs' = [fs EXCEPT ![k] = cache_after_lookup(@)]
    /\ UNCHANGED <<now, written, cacheVars, api_keys, frame, app, settings, call, sessions, lastHit, store, proc>>

\* line 461: the content is an error result
content_failed_never(content) == FALSE
content_failed(content) == Truthy(content) /\ "error" \in DOMAIN content

\* lines 462-466 and 474-478: the error results process_content builds
content_error_result(url, content, t) ==
    ProcessingError(url, <<"Error in content extraction", content["error"]>>, t)
invalid_provider_result_untagged(url, provider, t) ==
    [url |-> url, processed_at |-> isoformat(t)]
invalid_provider_result(url, provider, t) ==
    ProcessingError(url, <<"Invalid provider", provider>>, t)

\* process_content, lines 460-478: the error check, then the provider
process_content_dispatch(n) ==
    /\ futures[n].state = "running"
    /\ futures[n].stage = "content"
    /\ LET f == futures[n]
       IN  futures' =
             IF content_failed(f.content)
             THEN [futures EXCEPT ![n].state = "done", ![n].stage = "",
                     ![n].result = content_error_result(f.url, f.content, now)]
             ELSE IF lower(call.provider) \in {"openai", "google"}
             THEN [futures EXCEPT ![n].stage = "key", ![n].adapter = lower(call.provider)]
             ELSE [futures EXCEPT ![n].state = "done", ![n].stage = "",
                     ![n].result = invalid_provider_result(f.url, call.provider, now)]
    /\ UNCHANGED <<now, fs, written, cacheVars, api_keys, frame, app, settings, call, sessions, lastHit, store, proc>>

\* process_with_openai, lines 330-331, and process_with_google, 392-393:
\* the key check, before the try block
process_with_provider_key(n) ==
    /\ futures[n].state = "running"
    /\ futures[n].stage = "key"
    /\ futures' = IF api_keys[futures[n].adapter]
                  THEN [futures EXCEPT ![n].stage = "generate"]
                  ELSE [futures EXCEPT ![n] = task_raise(@, "API key not found", "adapter")]
    /\ UNCHANGED <<now, fs, written, cacheVars, api_keys, frame, app, settings, call, sessions, lastHit, store, proc>>

\* process_with_openai, lines 351-379, and process_with_google, 411-437:
\* the client call inside try/except
process_with_provider_generate(n) ==
    /\ futures[n].state = "running"
    /\ futures[n].stage = "generate"
    /\ LET f == futures[n]
       IN  \E outcome \in ClientOutcomes :
             futures' = [futures EXCEPT
                ![n].state = "done", ![n].stage = "", ![n].client = TRUE,
                ![n].result =
                    IF outcome.exc = "none"
                    THEN ProcessingResult(f.content, ModelOf(f.adapter), now)
                    ELSE ProcessingError(f.content["url"], outcome.exc, now)]
    /\ UNCHANGED <<now, fs, written, cacheVars, api_keys, frame, app, settings, call, sessions, lastHit, store, proc>>

\* future.result(): the pair process_url returned, or the task's exception
future_result(f) ==
    IF f.state = "raised" THEN Raise(f.exc) ELSE Return(<<f.url, f.result>>)

\* process_urls, lines 512-522: try future.result() except Exception
process_urls_no_except(outcome, url, t) == outcome
process_urls_except(outcome, url, t) ==
    IF outcome.exc /= "none"
    THEN Return(<<url, ProcessingError(url, outcome.exc, t)>>)
    ELSE outcome

\* process_urls, lines 511-522: the next future, in submit order
process_urls_collect ==
    /\ call.pc = "collect"
    /\ call.fn = "process_urls"
    /\ call.j <= Len(futures)
    /\ futures[call.j].state \in {"done", "raised"}
    /\ LET f == futures[call.j]
           o == process_urls_except(future_result(f), f.url, now)
       IN  call' = IF o.exc = "none"
                   THEN [call EXCEPT !.j = @ + 1,
                                     !.results = DictSet(@, o.val[1], o.val[2])]
                   ELSE [call EXCEPT !.pc = "raised"]
    /\ UNCHANGED <<now, fs, written, cacheVars, api_keys, frame, app, settings, futures, sessions, lastHit, store, proc>>

\* process_urls, lines 506 and 524: the with block ends, return results
process_urls_exit ==
    /\ call.pc = "collect"
    /\ call.fn = "process_urls"
    /\ call.j > Len(futures)
    /\ call' = [call EXCEPT !.pc = "done"]
    /\ UNCHANGED <<now, fs, written, cacheVars, api_keys, frame, app, settings, futures, sessions, lastHit, store, proc>>

\* check_url_cache_status, lines 536-541
check_url_cache_status_call(urls) ==
    /\ call.pc = "idle"
    /\ call' = [IdleCall EXCEPT
                  !.pc = "check", !.fn = "check_url_cache_status", !.urls = urls,
                  !.i = 1, !.ttl = get_cache_timeout_hours(settings), !.fs0 = fs]
    /\ UNCHANGED <<now, fs, written, cacheVars, api_keys, frame, app, settings, futures, sessions, lastHit, store, proc>>

\* check_url_cache_status, lines 543-548: one turn of the loop
check_url_cache_status_lookup(readOk) ==
    /\ call.pc = "check"
    /\ call.i <= Len(call.urls)
    /\ LET url == call.urls[call.i]
           k == hash_url(url)
           cached_content == get_from_cache(fs[k], call.ttl, now, readOk).val
       IN  /\ call' = [call EXCEPT
                         !.i = @ + 1,
                         !.hit = Append(@, Truthy(cached_content)),
                         !.expired = Append(@, ExpiredRecord(k, call.ttl)),
                         !.cached_urls = IF Truthy(cached_content)
                                         THEN Append(@, url) ELSE @,
                         !.uncached_urls = IF Truthy(cached_content)
                                           THEN @ ELSE Append(@, url)]
           /\ fs' = [fs EXCEPT ![k] = cache_after_lookup(@)]
    /\ UNCHANGED <<now, written, cacheVars, api_keys, frame, app, settings, futures, sessions, lastHit, store, proc>>

\* check_url_cache_status, line 550
check_url_cache_status_exit ==
    /\ call.pc = "check"
    /\ call.i > Len(call.urls)
    /\ call' = [call EXCEPT !.pc = "done"]
    /\ UNCHANGED <<now, fs, written, cacheVars, api_keys, frame, app, settings, futures, sessions, lastHit, store, proc>>

\* the caller has the value of process_urls or check_url_cache_status
call_return ==
    /\ call.pc \in {"done", "raised"}
    /\ call' = IdleCall
    /\ futures' = <<>>
    /\ UNCHANGED <<now, fs, written, cacheVars, api_keys, frame, app, settings, sessions, lastHit, store, proc>>

NextProcess ==
    \/ TickProcess
    \/ \E urls \in UrlLists, provider \in Providers, mw \in ProcessWorkerCounts :
         process_urls_call(urls, provider, mw)
    \/ \E n \in DOMAIN futures : worker_start(n)
    \/ \E n \in DOMAIN futures, readOk \in BOOLEAN : process_content_lookup(n, readOk)
    \/ \E n \in DOMAIN futures : extract_url_settings(n)
    \/ \E n \in DOMAIN futures : extract_url_create(n)
    \/ \E n \in DOMAIN futures : extract_url_script(n)
    \/ \E n \in DOMAIN futures : extract_url_page(n)
    \/ \E n \in DOMAIN futures : process_content_dispatch(n)
    \/ \E n \in DOMAIN futures : process_with_provider_key(n)
    \/ \E n \in DOMAIN futures : process_with_provider_generate(n)
    \/ process_urls_collect
    \/ process_urls_exit
    \/ \E urls \in UrlLists : check_url_cache_status_call(urls)
    \/ \E readOk \in BOOLEAN : check_url_cache_status_lookup(readOk)
    \/ check_url_cache_status_exit
    \/ call_return

SpecProcess == InitProcess /\ [][NextProcess]_vars

(***************************************************************************)
(* Claims about process_urls and check_url_cache_status, checked under     *)
(* SpecProcess                                                             *)
(***************************************************************************)
ProcessEnded == call.fn = "process_urls" /\ Ended
\* the task has entered a provider function
AdapterEntered(n) == futures[n].adapter /= ""

Recognized(provider) == lower(provider) \in {"openai", "google"}

\* C14: process_urls with an unrecognized provider returns an error result
\* for every URL and, whatever the cache holds, has called no provider
\* client and launched no browser.
C14_UnknownProviderNoNetwork ==
    (ProcessEnded /\ ~Recognized(call.provider)) =>
        /\ call.pc = "done"
        /\ DOMAIN call.results = Range(call.urls)
        /\ \A u \in Range(call.urls) : IsError(call.results[u])
        /\ \A n \in DOMAIN futures :
              ~futures[n].client /\ futures[n].session = "none"

\* C15: a task that entered process_with_openai or process_with_google
\* gets a value back, with a response or with an error, whatever the
\* client did and whether or not the API key is set; the function never
\* raises.
C15_AdaptersNeverRaise ==
    \A n \in DOMAIN futures :
        (AdapterEntered(n) /\ futures[n].state \in {"done", "raised"}) =>
            /\ futures[n].state = "done"
            /\ \/ DOMAIN futures[n].result =
                     {"url", "title", "processed_at", "model", "response"}
               \/ DOMAIN futures[n].result = {"url", "error", "processed_at"}

\* C16: in process_urls a provider function is entered only with content
\* that is the cached content or a successful extraction; a task whose
\* extraction failed enters no provider, calls no client and ends in an
\* error result.
C16_ExtractFailedTerminal ==
    call.fn = "process_urls" =>
        \A n \in DOMAIN futures :
            /\ AdapterEntered(n) =>
                  /\ ~IsError(futures[n].content)
                  /\ \/ futures[n].content = PageContent(futures[n].url, now)
                     \/ /\ "content" \in DOMAIN StoredDict(call.fs0[hash_url(futures[n].url)])
                        /\ futures[n].content = CachedContent(futures[n].url)
            /\ futures[n].failed \in ExtractSteps =>
                  /\ ~AdapterEntered(n)
                  /\ ~futures[n].client
                  /\ futures[n].state = "done" => IsError(futures[n].result)
                  /\ (ProcessEnded /\ n = LastFuture(futures[n].url)) =>
                        IsError(call.results[futures[n].url])
C16_Witness ==
    /\ ProcessEnded
    /\ Recognized(call.provider)
    /\ api_keys[lower(call.provider)]
    /\ \E n \in DOMAIN futures :
         /\ futures[n].failed = "page"
         /\ ~AdapterEntered(n)
         /\ IsError(call.results[futures[n].url])
    /\ \E n \in DOMAIN futures : futures[n].client

\* check_url_cache_status has returned its two lists
CheckEnded == call.fn = "check_url_cache_status" /\ call.pc = "done"

\* C17: the two lists check_url_cache_status returns have no URL in common
\* and together hold exactly the URLs of the input list, also when a URL
\* is repeated in the list and the clock moves or a read fails between its
\* lookups.
C17_Partition ==
    CheckEnded =>
        /\ Range(call.cached_urls) \cap Range(call.uncached_urls) = {}
        /\ Range(call.cached_urls) \cup Range(call.uncached_urls) = Range(call.urls)

\* C18: from its call to its return check_url_cache_status leaves every
\* cache file as it was when the call started, has submitted no task,
\* launched no browser session and entered no provider function.
C18_CheckNoSideEffects ==
    call.fn = "check_url_cache_status" =>
        /\ fs = call.fs0
        /\ \A k \in Keys : written[k] = RecordOf(k[2], fs[k])
        /\ futures = <<>>
        /\ call.launched = 0
        /\ call.results = <<>>
C18_Witness ==
    /\ CheckEnded
    /\ Len(call.urls) = 2
    /\ \E u \in Range(call.cached_urls) : fs[hash_url(u)].exists
    /\ \E u \in Range(call.uncached_urls) : fs[hash_url(u)].exists

\* the fields of a successful extraction, and the task's call of extract_url
\* has returned a value
ContentFields == {"title", "html", "text_content", "links", "extracted_at"}
ExtractGaveValue(n) ==
    /\ ExtractReturned(n)
    /\ futures[n].state = "raised" => futures[n].failed \notin ExtractSteps
    /\ futures[n].session /= "none" \/ futures[n].failed \in ExtractSteps

\* C19: every value extract_url returns has the error field and none of
\* the content fields, or all the content fields and no error field; every
\* value of the mapping process_urls builds has exactly one of the error
\* and response fields.
C19_SuccessXorError ==
    call.fn = "process_urls" =>
        /\ \A n \in DOMAIN futures :
              ExtractGaveValue(n) =>
                  LET v == ExtractValue(n)
                  IN  \/ IsError(v) /\ DOMAIN v \cap ContentFields = {}
                      \/ ~IsError(v) /\ ContentFields \subseteq DOMAIN v
        /\ \A u \in DOMAIN call.results :
              IsError(call.results[u]) /= ("response" \in DOMAIN call.results[u])
C19_Witness ==
    /\ ProcessEnded
    /\ call.pc = "done"
    /\ \E n \in DOMAIN futures :
         ExtractGaveValue(n) /\ IsError(ExtractValue(n))
    /\ \E n \in DOMAIN futures :
         ExtractGaveValue(n) /\ ContentFields \subseteq DOMAIN ExtractValue(n)
    /\ \E u \in DOMAIN call.results : IsError(call.results[u])
    /\ \E u \in DOMAIN call.results : "response" \in DOMAIN call.results[u]

\* the sessions of this batch's tasks that are live
LiveSessions == {n \in DOMAIN futures : futures[n].session = "live"}

\* C20: during extract_urls at most max_workers tasks are executing and at
\* most max_workers sessions of the batch are live; when the call has
\* ended no task of its pool is pending or executing.
C20_BoundedConcurrency ==
    call.fn = "extract_urls" =>
        /\ Cardinality(Running) <= call.max_workers
        /\ Cardinality(LiveSessions) <= call.max_workers
        /\ Ended => \A n \in DOMAIN futures :
                       futures[n].state \in {"done", "raised", "cancelled"}

(***************************************************************************)
(* The cache store under several callers: two threads in save_to_cache and *)
(* one in get_from_cache, over both URLs, with the clock.                  *)
(***************************************************************************)
StoreWriters == {"w1", "w2"}

InitStore ==
    /\ now = 0
    /\ \E f \in [URLs -> UNION {ProcessFiles(u) : u \in URLs}] :
         /\ \A u \in URLs : f[u] \in ProcessFiles(u)
         /\ fs = [k \in Keys |-> f[k[2]]]
         /\ written = [k \in Keys |-> RecordOf(k[2], f[k[2]])]
    /\ put = [w \in StoreWriters |-> IdlePut]
    /\ get = IdleGet
    /\ settings = DefaultSettings
    /\ call = IdleCall
    /\ futures = <<>>
    /\ sessions = 0
    /\ lastHit = [u \in URLs |-> None]
    /\ api_keys = AllKeys
    /\ frame = IdleFrame
    /\ app = IdleApp
    /\ store = IdleStore
    /\ proc = IdleProc

\* the clock, under the store's callers
TickStore ==
    /\ \E t \in CallInstants : t > now /\ now' = t
    /\ UNCHANGED <<fs, written, put, get, pipeVars>>

\* what each of the two writers hands to save_to_cache for a URL
WriterContent(w, u) == IF w = "w1" THEN Content(u, 2, 0) ELSE Content(u, 3, 0)

\* two writers of one key, no reader
NextWriters ==
    \/ TickStore
    \/ \E w \in StoreWriters, u \in CacheURLs :
         save_to_cache_call(w, u, WriterContent(w, u))
    \/ \E w \in StoreWriters : save_json_open(w)
    \/ \E w \in StoreWriters : save_json_flush(w)
    \/ \E w \in StoreWriters : save_json_close(w)
    \/ \E w \in StoreWriters : save_json_fail(w)
    \/ \E w \in StoreWriters : save_to_cache_return(w)

SpecWriters == InitStore /\ [][NextWriters]_vars

\* one writer and one reader over both keys
NextStore ==
    \/ \E w \in Writers, u \in URLs : \E c \in PutContents(u) :
         save_to_cache_call(w, u, c)
    \/ \E w \in Writers : save_json_open(w)
    \/ \E w \in Writers : save_json_flush(w)
    \/ \E w \in Writers : save_json_close(w)
    \/ \E w \in Writers : save_json_fail(w)
    \/ \E w \in Writers : save_to_cache_return(w)
    \/ \E u \in URLs, ttl \in CallTTLs : get_from_cache_exists(u, ttl)
    \/ \E readOk \in BOOLEAN : get_from_cache_read(readOk)
    \/ get_from_cache_return

SpecStore == InitStore /\ [][NextStore]_vars

(***************************************************************************)
(* Claims about concurrent callers of the cache store, checked under       *)
(* SpecWriters and SpecStore                                               *)
(***************************************************************************)
\* C22: when two save_to_cache calls for one URL that overlapped have both
\* ended, returned or interrupted in mid-write, the URL's file is the whole
\* record one of them wrote or what was there before (a whole record or no
\* file), never a cut-short file or a mixture of the two.
C22_LastWriteWins ==
    (\A w \in StoreWriters : put[w].pc = "done") =>
        \A u \in {put[w].url : w \in StoreWriters} :
            LET mine == {w \in StoreWriters : put[w].url = u}
            IN  fs[hash_url(u)] \in
                    {File(PutText(w)) : w \in mine}
                    \cup {f \in {fs[hash_url(u)]} :
                             ~f.exists \/ RecordOf(u, f) /= NoRecord}

\* C27: the cache file of a URL changes only in a step of a save_to_cache
\* call for that very URL string, so a put for another URL leaves its
\* record as it is; a get returns only content read from the file of the
\* URL it was called with.
C27_KeyedByRawUrl ==
    /\ [][\A u \in URLs :
            fs'[hash_url(u)] /= fs[hash_url(u)] =>
                \E w \in Writers : /\ put[w].url = u
                                   /\ put[w].pc \in {"open", "writing"}
                                   /\ put'[w] /= put[w]]_vars
    /\ [](\A u1, u2 \in URLs : u1 /= u2 => hash_url(u1) /= hash_url(u2))
    /\ [](get.pc = "done" /\ get.ret.val /= None =>
            /\ get.ret.val = StoredDict(get.seen)["content"]
            /\ get.ret.val["url"] = get.url)
C27_Witness ==
    /\ put["w1"].pc = "done"
    /\ put["w1"].url = "A"
    /\ put["w1"].ret = Return(TRUE)
    /\ fs[hash_url("B")] = File(json_dump(CacheData("B", 0, Content("B", 1, 0))))
    /\ fs[hash_url("A")] /= fs[hash_url("B")]
    /\ get.pc = "done"
    /\ get.url = "B"
    /\ get.ret = Return(Content("B", 1, 0))

(***************************************************************************)
(* Claims about expired records, checked under SpecProcess (the formula    *)
(* covers the lookups of extract_urls as well, which run under Spec)       *)
(***************************************************************************)
\* the task is past the lookup of process_content
LookedUp(n) ==
    /\ futures[n].state \in {"running", "done", "raised"}
    /\ futures[n].stage /= "lookup"
\* the task went on to extract_url, as it does for a URL with no record
WentToExtract(n) ==
    \/ futures[n].stage \in ExtractSteps
    \/ futures[n].failed \in ExtractSteps
    \/ futures[n].session /= "none"

ProxyValues ==
    { [str |-> <<>>],
      [str |-> <<"bad">>],
      [str |-> <<"1.2.3.4", ":", "8080">>],
      [str |-> <<"1.2.3.4", ":", "8080", ":", "bob", ":", "pw">>],
      [str |-> <<":", ":", ":">>],
      [str |-> <<"1.2.3.4", ":", "8080", ":", "bob", ":", "p", ":", "w">>],
      [int |-> 8080] }

\* scraping.user_agent, and the agents random.choice picks from
UserAgentValues == {<<>>, <<"MyAgent">>}
user_agents == {<<"Chrome/122 Windows">>, <<"Chrome/122 Mac">>}

\* str.split(sep): the fields between the separators, empty ones included
RECURSIVE split(_, _)
split(s, sep) ==
    IF \A i \in DOMAIN s : s[i] /= sep
    THEN <<s>>
    ELSE LET i == CHOOSE j \in DOMAIN s :
                    s[j] = sep /\ \A m \in 1..(j - 1) : s[m] /= sep
         IN  <<SubSeq(s, 1, i - 1)>> \o split(SubSeq(s, i + 1, Len(s)), sep)

\* _get_chrome_options, lines 102-111: the --proxy-server argument, None
\* when none is added; proxy.split of a value that is no string raises
\* AttributeError, caught at line 112
proxy_server_first_four(proxy) ==
    IF "str" \notin DOMAIN proxy \/ proxy.str = <<>> THEN None
    ELSE LET parts == split(proxy.str, ":")
         IN  IF Len(parts) >= 4
             THEN [url |-> <<"http://">> \o parts[3] \o <<":">> \o parts[4]
                             \o <<"@">> \o parts[1] \o <<":">> \o parts[2]]
             ELSE None
proxy_server(proxy) ==
    IF "str" \in DOMAIN proxy /\ proxy.str = <<>> THEN None
    ELSE IF "str" \notin DOMAIN proxy
         THEN TryExcept(Raise("AttributeError"), None).val
    ELSE LET parts == split(proxy.str, ":")
         IN  IF Len(parts) = 4
             THEN [url |-> <<"http://">> \o parts[3] \o <<":">> \o parts[4]
                             \o <<"@">> \o parts[1] \o <<":">> \o parts[2]]
             ELSE None

\* _get_chrome_options, lines 54-115: --headless=new is always added;
\* choice is what random.choice returns when no user agent is given
get_chrome_options(user_agent, proxy, choice) ==
    [headless |-> TRUE,
     user_agent |-> IF user_agent = <<>> THEN choice ELSE user_agent,
     proxy_server |-> proxy_server(proxy)]

\* the settings extract_url reads, lines 116-121
ExtractSettings ==
    [cache_timeout_hours : CallTTLs, max_concurrent_tasks : {MaxWorkers},
     numeric : BOOLEAN, user_agent : UserAgentValues, proxy : ProxyValues,
     headless : BOOLEAN]

InitExtract ==
    /\ now = 0
    /\ fs = [k \in Keys |-> NoFile]
    /\ written = [k \in Keys |-> NoRecord]
    /\ put = [w \in Writers |-> IdlePut]
    /\ get = IdleGet
    /\ settings \in ExtractSettings
    /\ call = IdleCall
    /\ futures = <<>>
    /\ sessions = 0
    /\ lastHit = [u \in URLs |-> None]
    /\ api_keys = AllKeys
    /\ frame = IdleFrame
    /\ app = IdleApp
    /\ store = IdleStore
    /\ proc = IdleProc

\* what the page reads give: the text of the script pass or of the body
\* element, the anchors of the page
PageText(how) == IF how = "script" THEN <<"script text">> ELSE <<"body text">>
PageLinks == <<[href |-> "http://x/", text |-> "x"]>>

\* extract_url is called; lines 116-121 read the settings, float() and int()
\* raise ValueError outside the try block
extract_url_enter(url) ==
    /\ frame.pc = "idle"
    /\ frame' = IF settings.numeric
                THEN [pc |-> "options", url |-> url, steps |-> <<>>,
                      user_agent |-> settings.user_agent, proxy |-> settings.proxy,
                      options |-> None, session |-> "none", waited |-> "",
                      page |-> TRUE, script |-> TRUE, body |-> TRUE, anchors |-> TRUE,
                      ret |-> Return(None)]
                ELSE [pc |-> "done", url |-> url, steps |-> <<>>,
                      user_agent |-> <<>>, proxy |-> [str |-> <<>>],
                      options |-> None, session |-> "none", waited |-> "",
                      page |-> TRUE, script |-> TRUE, body |-> TRUE, anchors |-> TRUE,
                      ret |-> Raise("ValueError")]
    /\ UNCHANGED <<now, fs, written, cacheVars, settings, call, futures, sessions,
                   lastHit, api_keys, app, store, proc>>

\* the outer except clause, lines 265-270
extract_url_except(f, msg) ==
    [f EXCEPT !.pc = "done", !.ret = Return(ErrorResult(f.url, msg))]

\* line 127
extract_url_options ==
    /\ frame.pc = "options"
    /\ \E choice \in user_agents :
         frame' = [frame EXCEPT
                     !.pc = "create",
                     !.options = get_chrome_options(frame.user_agent, frame.proxy, choice)]
    /\ UNCHANGED <<now, fs, written, cacheVars, settings, call, futures, sessions,
                   lastHit, api_keys, app, store, proc>>

\* lines 130-133: webdriver.Chrome starts the browser, or raises
extract_url_webdriver ==
    /\ frame.pc = "create"
    /\ \/ /\ sessions < MaxSessions
          /\ frame' = [frame EXCEPT !.pc = "cdp", !.session = "live",
                                    !.steps = Append(@, "create")]
          /\ sessions' = sessions + 1
       \/ /\ frame' = extract_url_except(frame, "session not created")
          /\ UNCHANGED sessions
    /\ UNCHANGED <<now, fs, written, cacheVars, settings, call, futures,
                   lastHit, api_keys, app, store, proc>>

\* lines 136-158: execute_cdp_cmd, before the try block whose finally quits
extract_url_cdp ==
    /\ frame.pc = "cdp"
    /\ \/ frame' = [frame EXCEPT !.pc = "load", !.steps = Append(@, "script")]
       \/ frame' = extract_url_except(frame, "unknown command")
    /\ UNCHANGED <<now, fs, written, cacheVars, settings, call, futures, sessions,
                   lastHit, api_keys, app, store, proc>>

\* the finally clause, lines 262-263
driver_quit(f) == [f EXCEPT !.session = "quit", !.steps = Append(@, "quit")]

\* lines 162-170: driver.get, the wait for readyState "complete", the sleep
\* of latency seconds; failed names the call that raised, "" for none
LoadSteps(failed) ==
    IF failed = "get" THEN <<"get">>
    ELSE IF failed = "ready" THEN <<"get", "ready">>
    ELSE <<"get", "ready", "sleep">>
extract_url_load(failed) ==
    /\ frame.pc = "load"
    /\ LET f == [frame EXCEPT !.steps = @ \o LoadSteps(failed)]
       IN  \/ /\ failed = ""
              /\ frame' = [f EXCEPT !.pc = "text_wait"]
              /\ UNCHANGED sessions
           \/ /\ failed = "get"
              /\ frame' = extract_url_except(driver_quit(f), "net::ERR_NAME_NOT_RESOLVED")
              /\ sessions' = sessions - 1
           \/ /\ failed = "ready"
              /\ frame' = extract_url_except(driver_quit(f), "Page load timed out")
              /\ sessions' = sessions - 1
    /\ UNCHANGED <<now, fs, written, cacheVars, settings, call, futures,
                   lastHit, api_keys, app, store, proc>>

\* lines 173-180: the wait for a non-empty body text, in its own try with a
\* bare except
text_wait_fatal(f, outcome) ==
    IF outcome = "ok" THEN [f EXCEPT !.pc = "read"]
    ELSE extract_url_except(driver_quit(f), "Page load timed out")
text_wait(f, outcome) == [f EXCEPT !.pc = "read"]
extract_url_text_wait(outcome) ==
    /\ frame.pc = "text_wait"
    /\ frame' = text_wait([frame EXCEPT !.steps = Append(@, "text_wait"),
                                        !.waited = outcome], outcome)
    /\ sessions' = IF frame'.session = "quit" THEN sessions - 1 ELSE sessions
    /\ UNCHANGED <<now, fs, written, cacheVars, settings, call, futures,
                   lastHit, api_keys, app, store, proc>>

\* lines 187-222: the script pass, on its failure the text of the body
\* element, whose failure is not caught here
read_text_no_fallback(script, body) ==
    IF script THEN Return(PageText("script")) ELSE Raise("JavascriptException")
read_text(script, body) ==
    IF script THEN Return(PageText("script"))
    ELSE IF body THEN Return(PageText("body"))
    ELSE Raise("NoSuchElementException")

\* lines 225-249: the anchors, [] when the script fails
read_links(ok) == TryExcept(IF ok THEN Return(PageLinks) ELSE Raise("JavascriptException"), <<>>)

\* lines 183-263: title and page_source, the text, the links, the result
\* dict, and the finally clause
extract_url_read(page, script, body, anchors) ==
    /\ frame.pc = "read"
    /\ LET f == driver_quit([frame EXCEPT !.steps = Append(@, "extract"),
                                          !.page = page, !.script = script,
                                          !.body = body,
                                          !.anchors = anchors])
           text == read_text(script, body)
           lnk == read_links(anchors)
       IN  frame' =
             IF ~page THEN extract_url_except(f, "no such window")
             ELSE IF text.exc /= "none" THEN extract_url_except(f, text.exc)
             ELSE IF lnk.exc /= "none" THEN extract_url_except(f, lnk.exc)
             ELSE [f EXCEPT !.pc = "done",
                            !.ret = Return([url |-> f.url, title |-> 2, html |-> 2,
                                            text_content |-> text.val,
                                            links |-> lnk.val,
                                            extracted_at |-> isoformat(now)])]
    /\ sessions' = sessions - 1
    /\ UNCHANGED <<now, fs, written, cacheVars, settings, call, futures,
                   lastHit, api_keys, app, store, proc>>

\* the caller has the value or the exception of extract_url
extract_url_leave ==
    /\ frame.pc = "done"
    /\ frame' = IdleFrame
    /\ UNCHANGED <<now, fs, written, cacheVars, settings, call, futures, sessions,
                   lastHit, api_keys, app, store, proc>>

NextExtract ==
    \/ \E url \in URLs : extract_url_enter(url)
    \/ extract_url_options
    \/ extract_url_webdriver
    \/ extract_url_cdp
    \/ \E failed \in {"", "get", "ready"} : extract_url_load(failed)
    \/ \E outcome \in {"ok", "timeout", "error"} : extract_url_text_wait(outcome)
    \/ \E page, script, body, anchors \in BOOLEAN :
         extract_url_read(page, script, body, anchors)
    \/ extract_url_leave

SpecExtract == InitExtract /\ [][NextExtract]_vars

(***************************************************************************)
(* Claims about one extract_url call, checked under SpecExtract            *)
(***************************************************************************)
\* the call has built its Chrome options
HasOptions == frame.pc /= "idle" /\ frame.options /= None
\* the proxy setting is a string with exactly three colons
FourFields(proxy) ==
    /\ "str" \in DOMAIN proxy
    /\ Cardinality({i \in DOMAIN proxy.str : proxy.str[i] = ":"}) = 3
\* extract_url has returned a content dict
Succeeded ==
    /\ frame.pc = "done"
    /\ frame.ret.exc = "none"
    /\ ~IsError(frame.ret.val)

\* C21: a proxy string of exactly four colon-separated fields gives the
\* argument http://user:pass@ip:port, "1.2.3.4:8080:bob:pw" giving
\* http://bob:pw@1.2.3.4:8080; any other value gives no proxy argument, and
\* the call goes on to create the session.
C21_ProxyParsing ==
    HasOptions =>
        /\ frame.proxy = [str |-> <<"1.2.3.4", ":", "8080", ":", "bob", ":", "pw">>] =>
              frame.options.proxy_server =
                  [url |-> <<"http://", "bob", ":", "pw", "@", "1.2.3.4", ":", "8080">>]
        /\ FourFields(frame.proxy) =>
              LET parts == split(frame.proxy.str, ":")
              IN  frame.options.proxy_server =
                      [url |-> <<"http://">> \o parts[3] \o <<":">> \o parts[4]
                                 \o <<"@">> \o parts[1] \o <<":">> \o parts[2]]
        /\ ~FourFields(frame.proxy) => frame.options.proxy_server = None
        /\ (frame.pc = "done" /\ frame.steps = <<>>) =>
              frame.ret = Return(ErrorResult(frame.url, "session not created"))
C21_Witness ==
    /\ Succeeded
    /\ frame.proxy = [str |-> <<"bad">>]
    /\ frame.options.proxy_server = None

\* the steps of the load protocol, in the order of the code
ProtocolOrder == <<"create", "script", "get", "ready", "sleep", "text_wait", "extract">>
\* the steps taken, the closing quit left out
StepsTaken ==
    IF frame.steps /= <<>> /\ frame.steps[Len(frame.steps)] = "quit"
    THEN SubSeq(frame.steps, 1, Len(frame.steps) - 1)
    ELSE frame.steps

\* C25: the steps of a call are an initial part of: navigate, wait for
\* readyState "complete", sleep, wait for a non-empty text, extraction.  A
\* call whose ready wait timed out returns an error result and has read no
\* content; a text wait that timed out or raised is followed by the
\* extraction, and the call returns a content dict when the reads succeed.
C25_LoadProtocol ==
    frame.pc /= "idle" =>
        /\ Len(StepsTaken) <= Len(ProtocolOrder)
        /\ \A i \in DOMAIN StepsTaken : StepsTaken[i] = ProtocolOrder[i]
        /\ (frame.pc = "done" /\ StepsTaken = SubSeq(ProtocolOrder, 1, 4)) =>
              /\ frame.ret = Return(ErrorResult(frame.url, "Page load timed out"))
              /\ frame.session = "quit"
        /\ (frame.pc = "done" /\ frame.waited \in {"timeout", "error"}) =>
              /\ StepsTaken = ProtocolOrder
              /\ (frame.page /\ (frame.script \/ frame.body)) => Succeeded
C25_Witness ==
    /\ Succeeded
    /\ frame.waited = "timeout"
    /\ StepsTaken = ProtocolOrder

\* C26: when the script pass for the text fails, the text is that of the
\* body element and the call still returns a content dict, an error result
\* only when the body read fails too; when the anchor script fails the
\* call returns a content dict with links = [].
C26_Fallbacks ==
    (frame.pc = "done" /\ StepsTaken = ProtocolOrder /\ frame.page) =>
        /\ (frame.script \/ frame.body) <=> Succeeded
        /\ Succeeded =>
              /\ frame.ret.val["text_content"] =
                    PageText(IF frame.script THEN "script" ELSE "body")
              /\ frame.ret.val["links"] = IF frame.anchors THEN PageLinks ELSE <<>>
        /\ ~Succeeded => frame.ret.exc = "none" /\ IsError(frame.ret.val)
C26_Witness ==
    /\ Succeeded
    /\ ~frame.script /\ frame.body /\ ~frame.anchors
    /\ frame.ret.val["text_content"] = PageText("body")
    /\ frame.ret.val["links"] = <<>>

(***************************************************************************)
(* The provider functions process_with_openai and process_with_google,     *)
(* one call at a time, under the llm settings a profile may hold.          *)
(***************************************************************************)
\* settings["llm"][provider] as a profile may hold it; temperature in tenths
LlmModels(provider) ==
    IF provider = "openai" THEN {"gpt-4", "gpt-4o-mini"}
    ELSE {"gemini-2.0-flash", "gemini-1.5-pro"}
LlmValues(provider) ==
    [model : LlmModels(provider), temperature : {0, 7}, max_tokens : {1000, 256}]
LlmSettings ==
    {[cache_timeout_hours |-> 24, max_concurrent_tasks |-> MaxWorkers,
      numeric |-> TRUE, llm |-> [openai |-> o, google |-> g]] :
        o \in LlmValues("openai"), g \in LlmValues("google")}

\* Extractor.__init__, line 50: the model object is made once, by name
gemini_model == "gemini-2.0-flash"

InitAdapter ==
    /\ now = 0
    /\ fs = [k \in Keys |-> NoFile]
    /\ written = [k \in Keys |-> NoRecord]
    /\ put = [w \in Writers |-> IdlePut]
    /\ get = IdleGet
    /\ settings \in LlmSettings
    /\ call = IdleCall
    /\ futures = <<>>
    /\ sessions = 0
    /\ lastHit = [u \in URLs |-> None]
    /\ api_keys \in [openai : BOOLEAN, google : BOOLEAN]
    /\ frame = IdleFrame
    /\ app = IdleApp
    /\ store = IdleStore
    /\ proc = IdleProc

\* the frame of a provider function whose key check has passed, or failed
AdapterFrame(provider, content, request) ==
    IF api_keys[provider]
    THEN [pc |-> "request", provider |-> provider, content |-> content,
          request |-> request, ret |-> Return(None)]
    ELSE [pc |-> "done", provider |-> provider, content |-> content,
          request |-> None, ret |-> Raise("ValueError")]

\* process_with_openai, lines 330-361: the key check, the settings, the
\* arguments of client.chat.completions.create
process_with_openai(content) ==
    /\ frame.pc = "idle"
    /\ LET llm_settings == settings.llm["openai"]
       IN  frame' = AdapterFrame("openai", content,
                       [model |-> llm_settings.model,
                        temperature |-> llm_settings.temperature,
                        max_tokens |-> llm_settings.max_tokens])
    /\ UNCHANGED <<now, fs, written, cacheVars, settings, call, futures, sessions,
                   lastHit, api_keys, app, store, proc>>

\* process_with_google, lines 392-418: the key check, the settings, the
\* arguments of self.gemini_model.generate_content
process_with_google(content) ==
    /\ frame.pc = "idle"
    /\ LET llm_settings == settings.llm["google"]
       IN  frame' = AdapterFrame("google", content,
                       [model |-> gemini_model,
                        temperature |-> llm_settings.temperature,
                        max_tokens |-> llm_settings.max_tokens])
    /\ UNCHANGED <<now, fs, written, cacheVars, settings, call, futures, sessions,
                   lastHit, api_keys, app, store, proc>>

\* lines 363-379 and 420-437: the client answers or raises; the result
\* names the model of the request (process_with_google: the literal
\* "gemini-2.0-flash")
process_with_generate(outcome) ==
    /\ frame.pc = "request"
    /\ frame' = [frame EXCEPT
                   !.pc = "done",
                   !.ret = Return(IF outcome.exc = "none"
                                  THEN ProcessingResult(frame.content,
                                           IF frame.provider = "openai"
                                           THEN frame.request.model
                                           ELSE "gemini-2.0-flash", now)
                                  ELSE ProcessingError(frame.content["url"],
                                                       outcome.exc, now))]
    /\ UNCHANGED <<now, fs, written, cacheVars, settings, call, futures, sessions,
                   lastHit, api_keys, app, store, proc>>

\* the caller has the value or the exception of the provider function
process_with_return ==
    /\ frame.pc = "done"
    /\ frame' = IdleFrame
    /\ UNCHANGED <<now, fs, written, cacheVars, settings, call, futures, sessions,
                   lastHit, api_keys, app, store, proc>>

NextAdapter ==
    \/ \E u \in URLs : process_with_openai(Content(u, 1, 0))
    \/ \E u \in URLs : process_with_google(Content(u, 1, 0))
    \/ \E outcome \in ClientOutcomes : process_with_generate(outcome)
    \/ process_with_return

SpecAdapter == InitAdapter /\ [][NextAdapter]_vars

(***************************************************************************)
(* Claims about the provider functions, checked under SpecAdapter          *)
(***************************************************************************)
\* C30: the request of each provider function carries the model, the
\* temperature and the max_tokens that settings["llm"][provider] holds, and
\* a successful result names that model.
C30_AdaptersHonourConfig ==
    (frame.pc \in {"request", "done"} /\ frame.request /= None) =>
        /\ frame.request = settings.llm[frame.provider]
        /\ (frame.pc = "done" /\ ~IsError(frame.ret.val)) =>
              frame.ret.val["model"] = settings.llm[frame.provider].model

(***************************************************************************)
(* The extraction page of app.py: every button press runs the page with a  *)
(* new Extractor, whose settings are the active profile; "Check Cache      *)
(* Status" calls check_url_cache_status, "Start Extraction" replaces the   *)
(* scraping settings by the page's widgets and calls extract_urls.         *)
(***************************************************************************)
\* the active profile's scraping settings
ProfileSettings ==
    [cache_timeout_hours : TTLs, max_concurrent_tasks : {MaxWorkers}, numeric : {TRUE}]

InitApp ==
    /\ now = 0
    /\ \E f \in [URLs -> UNION {ProcessFiles(u) : u \in URLs}] :
         /\ \A u \in URLs : f[u] \in ProcessFiles(u)
         /\ fs = [k \in Keys |-> f[k[2]]]
         /\ written = [k \in Keys |-> RecordOf(k[2], f[k[2]])]
    /\ put = [w \in Writers |-> IdlePut]
    /\ get = IdleGet
    /\ \E profile \in ProfileSettings :
         /\ settings = profile
         /\ app = [IdleApp EXCEPT !.profile = profile]
         /\ store = IdleStore
         /\ proc = IdleProc
    /\ call = IdleCall
    /\ futures = <<>>
    /\ sessions = 0
    /\ lastHit = [u \in URLs |-> None]
    /\ api_keys = AllKeys
    /\ frame = IdleFrame

\* app.py, lines 931 and 970-972: Extractor(), then check_url_cache_status
extraction_page_check(urls) ==
    /\ call.pc = "idle"
    /\ settings' = app.profile
    /\ call' = [IdleCall EXCEPT
                  !.pc = "check", !.fn = "check_url_cache_status", !.urls = urls,
                  !.i = 1, !.ttl = get_cache_timeout_hours(app.profile), !.fs0 = fs]
    /\ app' = [app EXCEPT !.cached_urls = <<>>, !.checked_at = now]
    /\ UNCHANGED <<now, fs, written, cacheVars, futures, sessions, lastHit,
                   api_keys, frame, store, proc>>

\* lines 975-976: the two lists go to st.session_state
extraction_page_checked ==
    /\ CheckEnded
    /\ app' = [app EXCEPT !.cached_urls = call.cached_urls]
    /\ call' = IdleCall
    /\ UNCHANGED <<now, fs, written, cacheVars, settings, futures, sessions,
                   lastHit, api_keys, frame, store, proc>>

\* lines 1063-1070: temp_settings["scraping"] is a new dict of the widgets'
\* values: latency_seconds, timeout_seconds, max_concurrent_tasks, headless
\* and user_agent
temp_settings(profile, max_workers) ==
    [max_concurrent_tasks |-> max_workers, numeric |-> TRUE]

\* lines 931, 1051-1089: Extractor(), extractor.settings = temp_settings,
\* then extract_urls(urls_to_extract, max_workers) up to its line 291
extraction_page_start(urls, max_workers) ==
    /\ call.pc = "idle"
    /\ settings' = temp_settings(app.profile, max_workers)
    /\ call' = [IdleCall EXCEPT
                  !.pc = "scan", !.fn = "extract_urls", !.urls = urls, !.i = 1,
                  !.ttl = get_cache_timeout_hours(settings'),
                  !.max_workers = max_workers,
                  !.fs0 = fs]
    /\ UNCHANGED <<now, fs, written, cacheVars, futures, sessions, lastHit,
                   api_keys, frame, app, store, proc>>

NextApp ==
    \/ TickPipe
    \/ \E urls \in UrlLists : extraction_page_check(urls)
    \/ \E readOk \in BOOLEAN : check_url_cache_status_lookup(readOk)
    \/ check_url_cache_status_exit
    \/ extraction_page_checked
    \/ \E urls \in UrlLists : extraction_page_start(urls, 1)
    \/ \E readOk \in BOOLEAN : extract_urls_lookup(readOk)
    \/ extract_urls_scanned
    \/ \E n \in DOMAIN futures : worker_start(n)
    \/ \E n \in DOMAIN futures : extract_url_settings(n)
    \/ \E n \in DOMAIN futures : extract_url_create(n)
    \/ \E n \in DOMAIN futures : extract_url_script(n)
    \/ \E n \in DOMAIN futures : extract_url_page(n)
    \/ extract_urls_collect
    \/ extract_urls_exit
    \/ extract_urls_return

SpecApp == InitApp /\ [][NextApp]_vars

(***************************************************************************)
(* Claims about the extraction page, checked under SpecApp                 *)
(***************************************************************************)
\* C29: extract_urls looks the cache up with the cache_timeout_hours of the
\* active profile, the value check_url_cache_status used, also when it is
\* started from the page; so a URL the check reported as cached is not
\* expired for an extract_urls call at the instant of the check.
C29_ConfiguredTtl ==
    call.fn \in {"extract_urls", "check_url_cache_status"} =>
        /\ call.ttl = app.profile.cache_timeout_hours
        /\ call.fn = "extract_urls" /\ now = app.checked_at =>
              \A i \in DOMAIN call.expired :
                  call.urls[i] \in Range(app.cached_urls) => ~call.expired[i]

(***************************************************************************)
(* Claims about the course of one task of process_urls, checked under      *)
(* SpecProcess                                                             *)
(***************************************************************************)
\* where the URL of a task stands
UrlState(f) ==
    IF f.state = "pending" \/ f.stage = "lookup" THEN "NEW"
    ELSE IF f.adapter /= ""
         THEN IF f.state = "running" THEN "PROCESSING"
              ELSE IF f.state = "done" /\ ~IsError(f.result) THEN "PROCESSED"
              ELSE "PROCESS_FAILED"
    ELSE IF f.state = "running" /\ f.stage \in ExtractSteps THEN "EXTRACTING"
    ELSE IF f.failed \in ExtractSteps THEN "EXTRACT_FAILED"
    ELSE IF f.state = "running" /\ f.session = "none" THEN "CACHE_HIT"
    ELSE IF f.state = "running" THEN "EXTRACTED"
    ELSE "PROCESS_FAILED"
\* the transitions of a URL, a rejected provider name counting as a failed
\* processing
UrlTransitions ==
    { <<"NEW", "CACHE_HIT">>, <<"NEW", "EXTRACTING">>,
      <<"EXTRACTING", "EXTRACTED">>, <<"EXTRACTING", "EXTRACT_FAILED">>,
      <<"CACHE_HIT", "PROCESSING">>, <<"EXTRACTED", "PROCESSING">>,
      <<"CACHE_HIT", "PROCESS_FAILED">>, <<"EXTRACTED", "PROCESS_FAILED">>,
      <<"PROCESSING", "PROCESSED">>, <<"PROCESSING", "PROCESS_FAILED">> }
\* the task extracted its content and has it past extract_url
Extracted(n) ==
    /\ futures[n].stage \notin ExtractSteps
    /\ futures[n].session /= "none"
    /\ futures[n].content /= None
    /\ ~IsError(futures[n].content)

\* C23: in a task the lookup comes before any step of the extraction, the
\* extracted content is in the cache before the task goes on and returns,
\* and the URL moves only along NEW -> CACHE_HIT | EXTRACTING ->
\* EXTRACTED | EXTRACT_FAILED -> PROCESSING -> PROCESSED | PROCESS_FAILED.
C23_TaskOrdering ==
    /\ [](call.fn = "process_urls" =>
            \A n \in DOMAIN futures :
                /\ WentToExtract(n) => LookedUp(n)
                /\ Extracted(n) =>
                      /\ "content" \in DOMAIN StoredDict(fs[hash_url(futures[n].url)])
                      /\ StoredDict(fs[hash_url(futures[n].url)])["content"]
                            = futures[n].content)
    /\ [][\A n \in DOMAIN futures \cap DOMAIN futures' :
            \/ UrlState(futures'[n]) = UrlState(futures[n])
            \/ <<UrlState(futures[n]), UrlState(futures'[n])>> \in UrlTransitions]_vars

(***************************************************************************)
(* process_urls with a pool of several threads: the tasks of one batch     *)
(* run interleaved and finish in any order, the clock moving meanwhile.    *)
(***************************************************************************)
\* a batch of two tasks, for one URL twice or for two URLs
BatchUrlLists == {urls \in UrlLists : Len(urls) = 2}

\* max_workers=None: the pool gets settings' max_concurrent_tasks threads
BatchWorkerCounts == {0}

InitBatch ==
    /\ InitProcess
    /\ settings = DefaultSettings

\* a step of the pool's threads or of the loop over the futures
BatchStep ==
    \/ \E n \in DOMAIN futures : worker_start(n)
    \/ \E n \in DOMAIN futures, readOk \in BOOLEAN : process_content_lookup(n, readOk)
    \/ \E n \in DOMAIN futures : extract_url_settings(n)
    \/ \E n \in DOMAIN futures : extract_url_create(n)
    \/ \E n \in DOMAIN futures : extract_url_script(n)
    \/ \E n \in DOMAIN futures : extract_url_page(n)
    \/ \E n \in DOMAIN futures : process_content_dispatch(n)
    \/ \E n \in DOMAIN futures : process_with_provider_key(n)
    \/ \E n \in DOMAIN futures : process_with_provider_generate(n)
    \/ process_urls_collect
    \/ process_urls_exit

NextBatch ==
    \/ TickPipe
    \/ \E urls \in BatchUrlLists, provider \in Providers, mw \in BatchWorkerCounts :
         process_urls_call(urls, provider, mw)
    \/ BatchStep
    \/ call_return

\* the pool's threads are scheduled and future.result() returns once its
\* task has finished
SpecBatch == InitBatch /\ [][NextBatch]_vars /\ WF_vars(BatchStep)

\* C24: process_urls returns once its tasks have finished, whatever the
\* order in which they finish; by then every task has run to its end, none
\* was cancelled, and the mapping has one entry per distinct input URL,
\* holding what the (last) task submitted for that URL produced.
C24_BatchCompletes ==
    /\ (call.fn = "process_urls") ~> (call.fn = "process_urls" /\ call.pc = "done")
    /\ [](ProcessEnded =>
            /\ \A n \in DOMAIN futures : futures[n].state \in {"done", "raised"}
            /\ DOMAIN call.results = Range(call.urls)
            /\ \A u \in Range(call.urls) :
                  LET f == futures[LastFuture(u)]
                  IN  /\ call.results[u]["url"] = u
                      /\ f.state = "done" => call.results[u] = f.result
                      /\ f.state = "raised" => call.results[u]["error"] = f.exc)
\* the second task finished a day before the first one
C24_Witness ==
    /\ ProcessEnded
    /\ Distinct(call.urls)
    /\ futures[1].state = "done" /\ futures[2].state = "done"
    /\ call.results[call.urls[1]] = futures[1].result
    /\ call.results[call.urls[2]] = futures[2].result
    /\ futures[2].result["processed_at"] = isoformat(0)
    /\ futures[1].result["processed_at"] = isoformat(86460)

(***************************************************************************)
(* Claim about the headless flag, checked under SpecExtract                *)
(***************************************************************************)
\* C31: a session extract_url has created runs headless exactly when
\* scraping.headless is true in the settings of the call.
C31_HeadlessFollowsSetting ==
    (frame.pc /= "idle" /\ frame.session /= "none") =>
        (frame.options.headless <=> settings.headless)

(***************************************************************************)
(* Claim about put followed by get, checked under SpecCache                *)
(***************************************************************************)
\* C32: when save_to_cache(url, c) has returned True the file holds its
\* record, and as long as no later save_to_cache touches that file every
\* get_from_cache(url, ttl) that reads it at an age of at most ttl hours
\* returns exactly c.
C32_RoundTrip ==
    /\ \A w \in Writers :
          (put[w].pc = "done" /\ put[w].ret.val = TRUE) =>
              written[hash_url(put[w].url)] = Record(put[w].at, put[w].content)
    /\ (/\ get.pc = "done" /\ get.readOk
        /\ get.rec /= NoRecord
        /\ get.rec.content \in PutContents(get.url)
        /\ get.at - get.rec.T <= get.ttl * SecondsPerHour)
       => get.ret = Return(get.rec.content)
C32_Witness ==
    /\ get.pc = "done" /\ get.readOk
    /\ get.rec = Record(0, Content(get.url, 2, 0))
    /\ get.ttl = 24 /\ get.at = 24 * SecondsPerHour
    /\ get.ret = Return(Content(get.url, 2, 0))

(***************************************************************************)
(* The settings store: SettingsManager on settings.json, driven by the     *)
(* settings page and the processing page of the application, one call at   *)
(* a time.  A JSON object is a sequence of <<key, value>> items: Python     *)
(* dicts and json.load keep the order of insertion.                        *)
(***************************************************************************)
\* the profiles one run creates at most
MaxProfiles == 3

\* key in d, d[key], d[key] = value, del d[key] on an ordered dict
OrderedHas(d, key) == \E i \in DOMAIN d : d[i][1] = key
OrderedGet(d, key) == d[CHOOSE i \in DOMAIN d : d[i][1] = key][2]
OrderedSet(d, key, value) ==
    IF OrderedHas(d, key)
    THEN [i \in DOMAIN d |-> IF d[i][1] = key THEN <<key, value>> ELSE d[i]]
    ELSE Append(d, <<key, value>>)
OrderedDel(d, key) == SelectSeq(d, LAMBDA item : item[1] /= key)

\* DEFAULT_SETTINGS, lines 22-55, as the module is loaded
DEFAULT_SETTINGS ==
    [cache_timeout_hours |-> 24, max_concurrent_tasks |-> MaxWorkers,
     numeric |-> TRUE,
     llm |-> [openai |-> [model |-> "gpt-4", temperature |-> 0, max_tokens |-> 1000],
              google |-> [model |-> "gemini-2.0-flash", temperature |-> 0,
                          max_tokens |-> 1000]]]

\* the settings dicts the settings page saves, and the profile names
StoreSettings ==
    {s \in LlmSettings : /\ s.llm.google = DEFAULT_SETTINGS.llm.google
                         /\ s.llm.openai.temperature = 0
                         /\ s.llm.openai.max_tokens = 1000}
ProfileNames == {"default", "fast"}

\* generate_id(): an id no earlier call returned
IdNames == <<"p1", "p2", "p3", "p4">>
generate_id(n) == IdNames[n + 1]
ProfileIds == {generate_id(n) : n \in 0..(MaxProfiles - 1)}

\* a profile as save_settings stores it, and the pointer's key and value
Profile(id, name, t, s) ==
    [id |-> id, name |-> name, created_at |-> isoformat(t), settings |-> s]
ActiveKey == "active_profile_id"
Pointer(id) == [str |-> id]

\* a value of settings.json that is a profile dict, not the pointer's string
IsProfile(value) == "name" \in DOMAIN value

\* the last manager call: its name, arguments and outcome, settings.json
\* before it, the ids generated so far, the profile last made active, and
\* the module's DEFAULT_SETTINGS object as it is now
ManagerCall(op, id, name, s, ret) ==
    [pc |-> "idle", op |-> op, id |-> id, name |-> name, s |-> s, ret |-> ret,
     before |-> store.settings, ids |-> proc.ids, active |-> proc.active,
     defaults |-> proc.defaults]

\* the application process at its start: SettingsManager.__init__, lines
\* 61-67, has found no settings.json and saved DEFAULT_SETTINGS as "default"
InitSettings ==
    /\ now = 0
    /\ fs = [k \in Keys |-> NoFile]
    /\ written = [k \in Keys |-> NoRecord]
    /\ put = [w \in Writers |-> IdlePut]
    /\ get = IdleGet
    /\ settings = DEFAULT_SETTINGS
    /\ call = IdleCall
    /\ futures = <<>>
    /\ sessions = 0
    /\ lastHit = [u \in URLs |-> None]
    /\ api_keys = AllKeys
    /\ frame = IdleFrame
    /\ app = IdleApp
    /\ store = [IdleStore EXCEPT
                  !.settings = << <<generate_id(0),
                                    Profile(generate_id(0), "default", 0,
                                            DEFAULT_SETTINGS)>> >>]
    /\ proc = [pc |-> "idle", op |-> "", id |-> "", name |-> "", s |-> None,
               ret |-> Return(None), before |-> <<>>, ids |-> 1, active |-> "",
               defaults |-> DEFAULT_SETTINGS]

\* save_settings, lines 104-109: the loop over settings_data.items() calls
\* profile.get("name") on every value up to the first match; the value under
\* "active_profile_id" is a str, which has no get.  "" stands for the None
\* of "no profile of that name"
existing_id(d, profile_name) ==
    LET stops == {i \in DOMAIN d :
                    \/ ~IsProfile(d[i][2])
                    \/ d[i][2].name = profile_name}
        first == CHOOSE i \in stops : \A j \in stops : i <= j
    IN  IF stops = {} THEN Return("")
        ELSE IF ~IsProfile(d[first][2]) THEN [exc |-> "AttributeError", val |-> ""]
        ELSE Return(d[first][1])

\* save_settings, lines 91-125
save_settings(profile_name, s) ==
    /\ proc.pc = "idle"
    /\ LET d == store.settings
           found == existing_id(d, profile_name)
           profile_id == IF found.val /= "" THEN found.val
                         ELSE generate_id(proc.ids)
       IN  /\ (found.exc = "none" /\ found.val = "") => proc.ids < MaxProfiles
           /\ IF found.exc /= "none"
              THEN /\ store' = store
                   /\ proc' = ManagerCall("save_settings", "", profile_name, s,
                                          Raise(found.exc))
              ELSE /\ store' = [store EXCEPT !.settings =
                                  OrderedSet(d, profile_id,
                                      Profile(profile_id, profile_name, now, s))]
                   /\ proc' = [ManagerCall("save_settings", profile_id,
                                           profile_name, s, Return(profile_id))
                                 EXCEPT !.ids = IF found.val = "" THEN @ + 1 ELSE @]
    /\ UNCHANGED <<now, fs, written, cacheVars, settings, call, futures, sessions,
                   lastHit, api_keys, frame, app>>

\* update_settings, lines 127-156: name and created_at are kept
update_settings(profile_id, s) ==
    /\ proc.pc = "idle"
    /\ LET d == store.settings
       IN  IF ~OrderedHas(d, profile_id)
           THEN /\ store' = store
                /\ proc' = ManagerCall("update_settings", profile_id, "", s,
                                       Return(FALSE))
           ELSE /\ store' = [store EXCEPT !.settings =
                               OrderedSet(d, profile_id,
                                   [OrderedGet(d, profile_id) EXCEPT !.settings = s])]
                /\ proc' = ManagerCall("update_settings", profile_id, "", s,
                                       Return(TRUE))
    /\ UNCHANGED <<now, fs, written, cacheVars, settings, call, futures, sessions,
                   lastHit, api_keys, frame, app>>

\* delete_settings, lines 158-175: the profile goes, the pointer stays
delete_settings(profile_id) ==
    /\ proc.pc = "idle"
    /\ LET d == store.settings
       IN  IF ~OrderedHas(d, profile_id)
           THEN /\ store' = store
                /\ proc' = ManagerCall("delete_settings", profile_id, "", None,
                                       Return(FALSE))
           ELSE /\ store' = [store EXCEPT !.settings = OrderedDel(d, profile_id)]
                /\ proc' = ManagerCall("delete_settings", profile_id, "", None,
                                       Return(TRUE))
    /\ UNCHANGED <<now, fs, written, cacheVars, settings, call, futures, sessions,
                   lastHit, api_keys, frame, app>>

\* set_active_profile, lines 195-212
set_active_profile(profile_id) ==
    /\ proc.pc = "idle"
    /\ LET d == store.settings
       IN  IF ~OrderedHas(d, profile_id)
           THEN /\ store' = store
                /\ proc' = ManagerCall("set_active_profile", profile_id, "", None,
                                       Return(FALSE))
           ELSE /\ store' = [store EXCEPT !.settings =
                               OrderedSet(d, ActiveKey, Pointer(profile_id))]
                /\ proc' = [ManagerCall("set_active_profile", profile_id, "", None,
                                        Return(TRUE))
                              EXCEPT !.active = profile_id]
    /\ UNCHANGED <<now, fs, written, cacheVars, settings, call, futures, sessions,
                   lastHit, api_keys, frame, app>>

\* get_active_settings, lines 177-193: the dict json.load built for the
\* active profile, or the module's DEFAULT_SETTINGS object itself
get_active_settings(d, defaults) ==
    LET active_profile_id == IF OrderedHas(d, ActiveKey)
                             THEN OrderedGet(d, ActiveKey).str ELSE "default"
    IN  IF OrderedHas(d, active_profile_id)
        THEN [ref |-> "loaded", val |-> OrderedGet(d, active_profile_id).settings]
        ELSE [ref |-> "DEFAULT_SETTINGS", val |-> defaults]

\* the values the processing page's widgets give for a provider
OverrideValues(provider) ==
    {v \in LlmValues(provider) : v.temperature = 7 /\ v.max_tokens = 256}

\* temp_settings["llm"][provider] = {...} on the shallow copy, app.py lines
\* 1460-1474: the inner "llm" dict is the one of the settings object
llm_after_override(active, defaults, provider, value) ==
    IF active.ref = "DEFAULT_SETTINGS"
    THEN [defaults EXCEPT !.llm[provider] = value]
    ELSE defaults

\* the processing page, app.py lines 1255 and 1438-1476: Start Processing
start_processing(provider, value) ==
    /\ proc.pc = "idle"
    /\ LET active == get_active_settings(store.settings, proc.defaults)
       IN  /\ settings' = [active.val EXCEPT !.llm[provider] = value]
           /\ proc' = [ManagerCall("start_processing", "", provider, active.val,
                                   Return(None))
                         EXCEPT !.defaults =
                             llm_after_override(active, proc.defaults, provider, value)]
    /\ UNCHANGED <<now, fs, written, cacheVars, store, call, futures, sessions,
                   lastHit, api_keys, frame, app>>

NextSettings ==
    \/ \E name \in ProfileNames, s \in StoreSettings : save_settings(name, s)
    \/ \E id \in ProfileIds, s \in StoreSettings : update_settings(id, s)
    \/ \E id \in ProfileIds : delete_settings(id)
    \/ \E id \in ProfileIds : set_active_profile(id)
    \/ \E provider \in {"openai", "google"} :
         \E value \in OverrideValues(provider) : start_processing(provider, value)

SpecSettings == InitSettings /\ [][NextSettings]_vars

(***************************************************************************)
(* Claims about the settings store, checked under SpecSettings             *)
(***************************************************************************)
\* C33: Start Processing with overridden llm values leaves what
\* get_active_settings returns, and the module's DEFAULT_SETTINGS, as they
\* were before the run.
C33_OverrideIsLocal ==
    proc.op = "start_processing" =>
        /\ get_active_settings(store.settings, proc.defaults).val = proc.s
        /\ proc.defaults = DEFAULT_SETTINGS


\* the profiles of a settings.json that carry a name
Named(d, name) == {i \in DOMAIN d : IsProfile(d[i][2]) /\ d[i][2].name = name}

\* C34: whatever calls came before, save_settings(name, s) does not raise;
\* it returns an id under which settings.json then holds a profile with
\* that name and those settings, the id of the profile that had the name
\* when there was one, and the name is then held by exactly one profile.
C34_SaveSettingsWorks ==
    proc.op = "save_settings" =>
        /\ proc.ret.exc = "none"
        /\ OrderedHas(store.settings, proc.ret.val)
        /\ OrderedGet(store.settings, proc.ret.val).name = proc.name
        /\ OrderedGet(store.settings, proc.ret.val).settings = proc.s
        /\ \A i \in Named(proc.before, proc.name) : proc.before[i][1] = proc.ret.val
        /\ Cardinality(Named(store.settings, proc.name)) = 1

\* C35: the active_profile_id of settings.json, when there is one, is the
\* id of a profile of the file, and get_active_settings returns the
\* settings of the profile the last successful set_active_profile named.
C35_ActivePointerValid ==
    /\ OrderedHas(store.settings, ActiveKey) =>
          OrderedHas(store.settings, OrderedGet(store.settings, ActiveKey).str)
    /\ proc.active /= "" =>
          /\ OrderedHas(store.settings, proc.active)
          /\ get_active_settings(store.settings, proc.defaults).val =
                OrderedGet(store.settings, proc.active).settings


(***************************************************************************)
(* Background tasks: run_background_task of app.py on                      *)
(* st.session_state["background_tasks"], one call at a time (a Streamlit   *)
(* script run executes in one thread).                                     *)
(***************************************************************************)
\* the task ids the pages build; a second run within the same second on
\* the same list has the id of the first
TaskIds == {"extract_1", "process_1"}

\* what func does: it returns its result or raises an Exception
FuncOutcomes == {Return("results"), Raise("boom")}

\* the records run_background_task stores, lines 77-81, 85-91 and 96-102
task_running(t) == [status |-> "running", start_time |-> isoformat(t), progress |-> 0]
task_completed(start_time, t, result) ==
    [status |-> "completed", start_time |-> start_time, end_time |-> isoformat(t),
     progress |-> 100, result |-> result]
task_failed_unrecorded(old, t, e) == old
task_failed(old, t, e) ==
    [status |-> "failed", start_time |-> old.start_time, end_time |-> isoformat(t),
     progress |-> 100, error |-> e]

\* st.session_state as lines 47-48 leave it; recorded is the history of the
\* statuses the call in progress has stored
InitTasks ==
    /\ now = 0
    /\ fs = [k \in Keys |-> NoFile]
    /\ written = [k \in Keys |-> NoRecord]
    /\ put = [w \in Writers |-> IdlePut]
    /\ get = IdleGet
    /\ settings = DefaultSettings
    /\ call = IdleCall
    /\ futures = <<>>
    /\ sessions = 0
    /\ lastHit = [u \in URLs |-> None]
    /\ api_keys = AllKeys
    /\ frame = IdleFrame
    /\ app = IdleApp
    /\ store = IdleStore
    /\ proc = [pc |-> "idle", task_id |-> "", background_tasks |-> <<>>,
               recorded |-> <<>>, outcome |-> Return(None), ret |-> Return(None)]

\* the clock, under the background tasks
TickTasks ==
    /\ \E t \in CallInstants : t > now /\ now' = t
    /\ UNCHANGED <<fs, written, cacheVars, settings, call, futures, sessions,
                   lastHit, api_keys, frame, app, store, proc>>

\* run_background_task, lines 76-81: the record with status running
run_background_task_call(task_id) ==
    /\ proc.pc = "idle"
    /\ proc' = [proc EXCEPT
                  !.pc = "func", !.task_id = task_id,
                  !.background_tasks = OrderedSet(@, task_id, task_running(now)),
                  !.recorded = <<"running">>,
                  !.outcome = Return(None), !.ret = Return(None)]
    /\ UNCHANGED <<now, fs, written, cacheVars, settings, call, futures, sessions,
                   lastHit, api_keys, frame, app, store>>

\* lines 83-93 and 94-103: func returns and the record becomes completed,
\* or func raises, the record becomes failed and the exception goes on
run_background_task_func(outcome) ==
    /\ proc.pc = "func"
    /\ LET old == OrderedGet(proc.background_tasks, proc.task_id)
           new == IF outcome.exc = "none"
                  THEN task_completed(old.start_time, now, outcome.val)
                  ELSE task_failed(old, now, outcome.exc)
       IN  proc' = [proc EXCEPT
                      !.pc = "done",
                      !.background_tasks = OrderedSet(@, proc.task_id, new),
                      !.recorded = IF new = old THEN @ ELSE Append(@, new.status),
                      !.outcome = outcome,
                      !.ret = outcome]
    /\ UNCHANGED <<now, fs, written, cacheVars, settings, call, futures, sessions,
                   lastHit, api_keys, frame, app, store>>

\* the caller has the value or the exception
run_background_task_return ==
    /\ proc.pc = "done"
    /\ proc' = [proc EXCEPT !.pc = "idle"]
    /\ UNCHANGED <<now, fs, written, cacheVars, settings, call, futures, sessions,
                   lastHit, api_keys, frame, app, store>>

NextTasks ==
    \/ TickTasks
    \/ \E task_id \in TaskIds : run_background_task_call(task_id)
    \/ \E outcome \in FuncOutcomes : run_background_task_func(outcome)
    \/ run_background_task_return

SpecTasks == InitTasks /\ [][NextTasks]_vars

(***************************************************************************)
(* Claim about background tasks, checked under SpecTasks                   *)
(***************************************************************************)
\* the record of a task id, None when there is none
TaskRecord(tasks, task_id) ==
    IF OrderedHas(tasks, task_id) THEN OrderedGet(tasks, task_id) ELSE None

MaxLists == 2
ListIds == {generate_id(n) : n \in 0..(MaxLists - 1)}

\* the strings a caller passes as URLs
UrlStrings == {<<"a">>, <<" ", "a">>, <<"b", " ">>, <<" ">>, <<>>}
\* the lists of them a caller passes: none, one, or one followed by a URL
\* or by an empty string
UrlArguments == {<<>>} \cup {<<s>> : s \in UrlStrings}
                       \cup {<<s, t>> : s \in UrlStrings, t \in {<<"a">>, <<>>}}

\* str.strip(): leading and trailing whitespace goes
RECURSIVE lstrip(_)
lstrip(s) == IF s /= <<>> /\ Head(s) = " " THEN lstrip(Tail(s)) ELSE s
RECURSIVE rstrip(_)
rstrip(s) ==
    IF s /= <<>> /\ s[Len(s)] = " " THEN rstrip(SubSeq(s, 1, Len(s) - 1)) ELSE s
strip_nothing(s) == s
strip(s) == rstrip(lstrip(s))

\* set(url.strip() for url in urls if url.strip())
cleaned(urls) == {strip(urls[i]) : i \in {j \in DOMAIN urls : strip(urls[j]) /= <<>>}}

\* list(a_set): the elements once each, in the order the hash table gives
Listings(S) == {seq \in [1..Cardinality(S) -> S] : Range(seq) = S}

\* the last call on the store: its name, arguments and value, and the
\* file before it
ListCall(op, id, urls, ret) ==
    [pc |-> "idle", op |-> op, id |-> id, urls |-> urls, ret |-> ret,
     before |-> store.url_lists, ids |-> proc.ids]

InitLists ==
    /\ now = 0
    /\ fs = [k \in Keys |-> NoFile]
    /\ written = [k \in Keys |-> NoRecord]
    /\ put = [w \in Writers |-> IdlePut]
    /\ get = IdleGet
    /\ settings = DefaultSettings
    /\ call = IdleCall
    /\ futures = <<>>
    /\ sessions = 0
    /\ lastHit = [u \in URLs |-> None]
    /\ api_keys = AllKeys
    /\ frame = IdleFrame
    /\ app = IdleApp
    /\ store = IdleStore
    /\ proc = [pc |-> "idle", op |-> "", id |-> "", urls |-> <<>>,
               ret |-> Return(None), before |-> <<>>, ids |-> 0]

\* create_list, lines 46-74
create_list(name, urls) ==
    /\ proc.pc = "idle"
    /\ proc.ids < MaxLists
    /\ LET list_id == generate_id(proc.ids)
       IN  \E cleaned_urls \in Listings(cleaned(urls)) :
             /\ store' = [store EXCEPT !.url_lists =
                            OrderedSet(@, list_id,
                               [id |-> list_id, name |-> name, urls |-> cleaned_urls,
                                search_response |-> None,
                                created_at |-> isoformat(now)])]
             /\ proc' = [ListCall("create_list", list_id, urls, Return(list_id))
                           EXCEPT !.ids = @ + 1]
    /\ UNCHANGED <<now, fs, written, cacheVars, settings, call, futures, sessions,
                   lastHit, api_keys, frame, app>>

\* update_list, lines 109-128, on the dict it has loaded: urls = None (given
\* is FALSE) keeps the URLs, a list replaces them by its cleaned set
lists_after_update(lists, list_id, given, cleaned_urls, t) ==
    LET old == OrderedGet(lists, list_id)
        new == IF given THEN [old EXCEPT !.urls = cleaned_urls] ELSE old
    IN  OrderedSet(lists, list_id, DictSet(new, "updated_at", isoformat(t)))

\* update_list(list_id, urls=urls), lines 97-128
update_list(list_id, given, urls) ==
    /\ proc.pc = "idle"
    /\ IF ~OrderedHas(store.url_lists, list_id)
       THEN /\ store' = store
            /\ proc' = ListCall("update_list", list_id, urls, Return(FALSE))
       ELSE \E cleaned_urls \in IF given THEN Listings(cleaned(urls)) ELSE {<<>>} :
              /\ store' = [store EXCEPT !.url_lists =
                             lists_after_update(@, list_id, given, cleaned_urls, now)]
              /\ proc' = ListCall("update_list", list_id, urls, Return(TRUE))
    /\ UNCHANGED <<now, fs, written, cacheVars, settings, call, futures, sessions,
                   lastHit, api_keys, frame, app>>

\* delete_list, lines 130-151
delete_list(list_id) ==
    /\ proc.pc = "idle"
    /\ IF ~OrderedHas(store.url_lists, list_id)
       THEN /\ store' = store
            /\ proc' = ListCall("delete_list", list_id, <<>>, Return(FALSE))
       ELSE /\ store' = [store EXCEPT !.url_lists = OrderedDel(@, list_id)]
            /\ proc' = ListCall("delete_list", list_id, <<>>, Return(TRUE))
    /\ UNCHANGED <<now, fs, written, cacheVars, settings, call, futures, sessions,
                   lastHit, api_keys, frame, app>>

\* add_urls_to_list, lines 153-176, and remove_urls_from_list, 178-201:
\* the set is computed from the stored list and handed to update_list
change_urls(op, list_id, urls) ==
    /\ proc.pc = "idle"
    /\ IF ~OrderedHas(store.url_lists, list_id)
       THEN /\ store' = store
            /\ proc' = ListCall(op, list_id, urls, Return(FALSE))
       ELSE LET existing_urls == Range(OrderedGet(store.url_lists, list_id).urls)
                updated == IF op = "add_urls_to_list"
                           THEN existing_urls \cup cleaned(urls)
                           ELSE existing_urls \ cleaned(urls)
                \* list(a_set), in whatever order: update_list makes a set of it
                updated_urls == CHOOSE seq \in Listings(updated) : TRUE
            IN  \E cleaned_urls \in Listings(cleaned(updated_urls)) :
                  /\ store' = [store EXCEPT !.url_lists =
                                 lists_after_update(@, list_id, TRUE,
                                                    cleaned_urls, now)]
                  /\ proc' = ListCall(op, list_id, urls, Return(TRUE))
    /\ UNCHANGED <<now, fs, written, cacheVars, settings, call, futures, sessions,
                   lastHit, api_keys, frame, app>>

NextLists ==
    \/ \E urls \in UrlArguments : create_list("list", urls)
    \/ \E id \in ListIds, urls \in UrlArguments : update_list(id, TRUE, urls)
    \/ \E id \in ListIds : update_list(id, FALSE, <<>>)
    \/ \E id \in ListIds : delete_list(id)
    \/ \E id \in ListIds, urls \in UrlArguments :
         change_urls("add_urls_to_list", id, urls)
    \/ \E id \in ListIds, urls \in UrlArguments :
         change_urls("remove_urls_from_list", id, urls)

SpecLists == InitLists /\ [][NextLists]_vars

(***************************************************************************)
(* Claim about the URL list store, checked under SpecLists                 *)
(***************************************************************************)
\* the URLs of a stored list, as a set
UrlsOf(lists, list_id) == Range(OrderedGet(lists, list_id).urls)

\* C37: every stored list holds each URL once and no empty or
\* whitespace-only string; after add_urls_to_list its URLs are the old ones
\* and the added ones, after remove_urls_from_list the old ones without the
\* removed ones.
C37_UrlListsClean ==
    /\ \A i \in DOMAIN store.url_lists :
          LET urls == store.url_lists[i][2].urls
          IN  /\ Distinct(urls)
              /\ \A n \in DOMAIN urls : \E c \in DOMAIN urls[n] : urls[n][c] /= " "
    /\ (proc.op = "add_urls_to_list" /\ proc.ret = Return(TRUE)) =>
          UrlsOf(store.url_lists, proc.id) =
             UrlsOf(proc.before, proc.id)
                \cup ({strip(proc.urls[n]) : n \in DOMAIN proc.urls} \ {<<>>})
    /\ (proc.op = "remove_urls_from_list" /\ proc.ret = Return(TRUE)) =>
          UrlsOf(store.url_lists, proc.id) =
             UrlsOf(proc.before, proc.id)
                \ {strip(proc.urls[n]) : n \in DOMAIN proc.urls}
C37_Witness ==
    /\ proc.op = "add_urls_to_list" /\ proc.ret = Return(TRUE)
    /\ proc.urls = << <<" ", "a">>, <<>> >>
    /\ UrlsOf(proc.before, proc.id) = {<<"a">>, <<"b">>}
    /\ UrlsOf(store.url_lists, proc.id) = {<<"a">>, <<"b">>}
    /\ Len(proc.before) = 2
    /\ Len(OrderedGet(store.url_lists, proc.id).urls) = 2


(***************************************************************************)
(* The prompt store under two callers: PromptManager.create_prompt on      *)
(* prompts.json from two Streamlit sessions, each a thread of the one      *)
(* server process.                                                         *)
(***************************************************************************)
\* the prompts one run creates at most
MaxPrompts == 3

Creators == {"c1", "c2"}
OutputFormats == {"json", "markdown", "xml"}

\* lines 58-60: an output format that is not known becomes "json"
checked_format(output_format) ==
    IF output_format \in {"json", "markdown"} THEN output_format ELSE "json"

\* the prompt dict of lines 65-71
Prompt(prompt_id, name, output_format, t) ==
    [id |-> prompt_id, name |-> name, content |-> "text",
     output_format |-> output_format, created_at |-> isoformat(t)]

IdleCreate == [pc |-> "idle", prompt_id |-> "", output_format |-> "",
               prompts |-> <<>>, ret |-> ""]

InitPrompts ==
    /\ now = 0
    /\ fs = [k \in Keys |-> NoFile]
    /\ written = [k \in Keys |-> NoRecord]
    /\ put = [w \in Writers |-> IdlePut]
    /\ get = IdleGet
    /\ settings = DefaultSettings
    /\ call = IdleCall
    /\ futures = <<>>
    /\ sessions = 0
    /\ lastHit = [u \in URLs |-> None]
    /\ api_keys = AllKeys
    /\ frame = IdleFrame
    /\ app = IdleApp
    /\ store = IdleStore
    /\ proc = [pc |-> "idle", ids |-> 0, frames |-> [c \in Creators |-> IdleCreate]]

\* create_prompt, lines 58-62: the format check and generate_id()
create_prompt_call(c, output_format) ==
    /\ proc.frames[c].pc = "idle"
    /\ proc.ids < MaxPrompts
    /\ proc' = [proc EXCEPT
                  !.ids = @ + 1,
                  !.frames[c] = [IdleCreate EXCEPT
                                   !.pc = "load",
                                   !.prompt_id = generate_id(proc.ids),
                                   !.output_format = checked_format(output_format)]]
    /\ UNCHANGED <<now, fs, written, cacheVars, settings, call, futures, sessions,
                   lastHit, api_keys, frame, app, store>>

\* line 63: prompts = self.get_prompts(), the file as it is now
create_prompt_load(c) ==
    /\ proc.frames[c].pc = "load"
    /\ proc' = [proc EXCEPT !.frames[c].pc = "save",
                            !.frames[c].prompts = store.prompts]
    /\ UNCHANGED <<now, fs, written, cacheVars, settings, call, futures, sessions,
                   lastHit, api_keys, frame, app, store>>

\* lines 65-75: the new entry in the loaded dict, save_json of that dict
create_prompt_save(c) ==
    /\ proc.frames[c].pc = "save"
    /\ LET f == proc.frames[c]
           prompts == OrderedSet(f.prompts, f.prompt_id,
                                 Prompt(f.prompt_id, c, f.output_format, now))
       IN  /\ store' = [store EXCEPT !.prompts = prompts]
           /\ proc' = [proc EXCEPT !.frames[c].pc = "done",
                                   !.frames[c].prompts = prompts,
                                   !.frames[c].ret = f.prompt_id]
    /\ UNCHANGED <<now, fs, written, cacheVars, settings, call, futures, sessions,
                   lastHit, api_keys, frame, app>>

\* the caller has the id
create_prompt_return(c) ==
    /\ proc.frames[c].pc = "done"
    /\ proc' = [proc EXCEPT !.frames[c] = IdleCreate]
    /\ UNCHANGED <<now, fs, written, cacheVars, settings, call, futures, sessions,
                   lastHit, api_keys, frame, app, store>>

NextPrompts ==
    \/ \E c \in Creators, output_format \in OutputFormats :
         create_prompt_call(c, output_format)
    \/ \E c \in Creators : create_prompt_load(c)
    \/ \E c \in Creators : create_prompt_save(c)
    \/ \E c \in Creators : create_prompt_return(c)

SpecPrompts == InitPrompts /\ [][NextPrompts]_vars

(***************************************************************************)
(* Claim about concurrent creates, checked under SpecPrompts               *)
(***************************************************************************)
\* C38: when two create_prompt calls have both saved and are about to
\* return, prompts.json holds the prompt of each of them.
C38_NoLostUpdate ==
    (\A c \in Creators : proc.frames[c].pc = "done") =>
        \A c \in Creators : OrderedHas(store.prompts, proc.frames[c].ret)

=============================================================================
